---- MODULE Spec2Model ----
(***************************************************************************)
(* The row-merge and footer-aggregation core of blingalytics.              *)
(*                                                                         *)
(* A report (blingalytics/base.py, class Report) pulls partial rows from   *)
(* its sources, merges them by key with heapq.merge (Report._get_rows),    *)
(* post-processes every completed row, accumulates one footer total per    *)
(* column (Report._increment_footer, Column.increment_footer) and          *)
(* finalizes the footer once the row stream is exhausted                   *)
(* (Report._get_footer, Column.finalize_footer).                           *)
(*                                                                         *)
(* The modelled report has one key, named "k", and the columns             *)
(*     k : plain column, filled by the key rows                            *)
(*     a : plain column                                                    *)
(*     b : plain column                                                    *)
(*     r : derived.Value(lambda row: row['a'] / row['b'])                  *)
(* and three sources: two data sources "A" and "B" whose get_rows yield    *)
(* the partial rows given in `data`, and the DerivedSource "D".            *)
(* A key is the one-element tuple (n,), written n; Python 2 semantics.     *)
(*                                                                         *)
(* Further on: the validation of user inputs and the report's unique_id    *)
(* (Report.clean_user_inputs, blingalytics/widgets.py), the two cache      *)
(* engines a run is stored in (caches/local_cache.py, caches/redis_cache.py)*)
(* with the accessors that read a cached instance, and the Redis cache     *)
(* called by several clients at once.                                      *)
(***************************************************************************)
EXTENDS Integers, Sequences, FiniteSets, TLC

\* ------------------------------------------------------------------------
\* Bounds of the model
\* ------------------------------------------------------------------------
MaxKey == 2
MaxLen == 2
MaxItems == 3
MaxCells == 3
MaxFinalize == 2

Keys == 1..MaxKey

SeqsUpTo(S, n) == UNION {[1..m -> S] : m \in 0..n}

\* ------------------------------------------------------------------------
\* Python values: a type tag and a magnitude
\* ------------------------------------------------------------------------
PyNone == [t |-> "none", v |-> 0]
PyStr == [t |-> "str", v |-> 0]
PyInt(n) == [t |-> "int", v |-> n]
PyLong(n) == [t |-> "long", v |-> n]
PyFloat(n) == [t |-> "float", v |-> n]
PyDec(n) == [t |-> "Decimal", v |-> n]
\* the outcome of an operation that raised TypeError
TypeError == [t |-> "TypeError", v |-> 0]

ADD_TYPES == {"int", "long", "Decimal", "float"}

DIVISION_BY_ZERO == {"InvalidOperation", "ZeroDivisionError"}

\* type of x + y for two numbers
SumType(s, t) ==
    IF "float" \in {s, t} THEN "float"
    ELSE IF "Decimal" \in {s, t} THEN "Decimal"
    ELSE IF "long" \in {s, t} THEN "long"
    ELSE "int"

\* x + y on numbers: Decimal + float is not defined and raises TypeError
PyAdd(x, y) ==
    IF {x.t, y.t} = {"Decimal", "float"} THEN TypeError
    ELSE [t |-> SumType(x.t, y.t), v |-> x.v + y.v]

\* Python 2 ordering of values: None < numbers (by value) < strings
TypeRank(x) == IF x.t = "none" THEN 0 ELSE IF x.t \in ADD_TYPES THEN 1 ELSE 2

PyCmp(x, y) ==
    IF TypeRank(x) # TypeRank(y) THEN (IF TypeRank(x) < TypeRank(y) THEN -1 ELSE 1)
    ELSE IF x.v < y.v THEN -1
    ELSE IF x.v > y.v THEN 1
    ELSE 0

\* ------------------------------------------------------------------------
\* The report definition
\* ------------------------------------------------------------------------
columns == <<"k", "a", "b", "r">>

ColumnNames == {columns[i] : i \in 1..Len(columns)}

KeyName == "k"

DerivedColumns == <<"r">>

\* lexicographic rank of the column names, for Python's string comparison
NameRank(c) == CASE c = "a" -> 1 [] c = "b" -> 2 [] c = "k" -> 3 [] c = "r" -> 4

SourceIds == {"A", "B", "D"}

DataSources == {"A", "B"}

\* the orders in which iterating the set of source classes can list them;
\* DerivedSource yields no rows and the data sources post-process nothing, so
\* only the order of A and B shows and D is listed last
SourceOrders ==
    {s \in [1..3 -> SourceIds] : s[3] = "D" /\ \A i, j \in 1..3 : i # j => s[i] # s[j]}

\* ------------------------------------------------------------------------
\* dicts: partial rows and rows are functions from column names to values
\* ------------------------------------------------------------------------
\* dict.setdefault for every item instead: an existing item is kept
UpdateKeepsFirst(d, p) ==
    [c \in (DOMAIN d) \cup (DOMAIN p) |-> IF c \in DOMAIN d THEN d[c] ELSE p[c]]

\* dict.update: d with the items of p added or overwritten
Update(d, p) ==
    [c \in (DOMAIN d) \cup (DOMAIN p) |-> IF c \in DOMAIN p THEN p[c] ELSE d[c]]

\* the all-None template row
empty_row == [c \in ColumnNames |-> PyNone]

NoKeyName == "-"

\* CPython 2 dict comparison, characterize(): the smallest key of a whose
\* value differs in b (or that b lacks)
Characterize(a, b) ==
    LET diff == {c \in DOMAIN a : c \notin DOMAIN b \/ PyCmp(a[c], b[c]) # 0}
    IN IF diff = {} THEN NoKeyName
       ELSE CHOOSE c \in diff : \A e \in diff : NameRank(c) <= NameRank(e)

\* CPython 2 dict_compare: by length, then by the smallest differing key,
\* then by the values at that key
DictCmp(a, b) ==
    IF Cardinality(DOMAIN a) < Cardinality(DOMAIN b) THEN -1
    ELSE IF Cardinality(DOMAIN a) > Cardinality(DOMAIN b) THEN 1
    ELSE LET adiff == Characterize(a, b)
             bdiff == Characterize(b, a)
         IN IF adiff = NoKeyName THEN 0
            ELSE IF NameRank(adiff) < NameRank(bdiff) THEN -1
            ELSE IF NameRank(adiff) > NameRank(bdiff) THEN 1
            ELSE PyCmp(a[adiff], b[bdiff])

\* ------------------------------------------------------------------------
\* Columns: footer accumulation and derived values
\* ------------------------------------------------------------------------
\* a non-numeric cell blanking the running total
increment_footer_collapse(footer, total, cell) ==
    IF footer /\ cell.t \in ADD_TYPES
    THEN IF total.t \in ADD_TYPES THEN PyAdd(total, cell) ELSE cell
    ELSE PyNone

\* Column.increment_footer; footer is the column's footer option
increment_footer(footer, total, cell) ==
    IF footer
    THEN IF total.t \in ADD_TYPES
         THEN IF cell.t \in ADD_TYPES THEN PyAdd(total, cell) ELSE total
         ELSE IF cell.t \in ADD_TYPES THEN cell ELSE PyNone
    ELSE PyNone

\* Column.finalize_footer
finalize_footer(total, footer) == total

\* x / y in Python 2: [exc, val]. Only int and long operands reach a
\* successful division here (floor division); every cell of a and b that the
\* sources of this model yield is an int, None or a string.
PyDiv(x, y) ==
    IF x.t \notin ADD_TYPES \/ y.t \notin ADD_TYPES \/ {x.t, y.t} = {"Decimal", "float"}
    THEN [exc |-> "TypeError", val |-> PyNone]
    ELSE IF y.v = 0
    THEN [exc |-> "ZeroDivisionError", val |-> PyNone]
    ELSE [exc |-> "", val |-> [t |-> SumType(x.t, y.t), v |-> x.v \div y.v]]

\* the derive function of column r: lambda row: row['a'] / row['b']
derive_func(row) == PyDiv(row["a"], row["b"])

\* a division by zero answered like a type error
get_derived_value_none(row) ==
    LET res == derive_func(row)
    IN IF res.exc = "" THEN res.val ELSE PyNone

\* the two except clauses answering alike
get_derived_value_zero(row) ==
    LET res == derive_func(row)
    IN IF res.exc = "TypeError" \/ res.exc \in DIVISION_BY_ZERO THEN PyDec(0)
       ELSE res.val

\* derived.Value.get_derived_value
get_derived_value(row) ==
    LET res == derive_func(row)
    IN IF res.exc = "TypeError" THEN PyNone
       ELSE IF res.exc \in DIVISION_BY_ZERO THEN PyDec(0)
       ELSE res.val

\* derived.Value.finalize_footer; without the footer option the method
\* falls off its end and returns None
Value_finalize_footer(footer_on, total, footer) ==
    IF footer_on
    THEN LET res == derive_func(footer)
         IN IF res.exc = "TypeError" THEN total
            ELSE IF res.exc \in DIVISION_BY_ZERO THEN PyDec(0)
            ELSE res.val
    ELSE PyNone

IsDerived(c) == \E i \in 1..Len(DerivedColumns) : DerivedColumns[i] = c

\* ------------------------------------------------------------------------
\* State
\* ------------------------------------------------------------------------
VARIABLES
    key_range,      \* the keys of the key range, as _get_key_rows lists them
    data,           \* data[s]: the (key, partial row) pairs get_rows of s yields
    _sources,       \* Report._sources: the source instances, in set order
    footer_opt,     \* footer_opt[c]: the footer option of column c
    pc,             \* position of the _get_rows generator of the current run
    pos,            \* pos[i]: items heapq.merge has taken from stream i
    current_key,
    current_row,
    pending,        \* the item dequeued when the generator stopped at a yield
    parts,          \* the partial rows merged into current_row, in order
    _footer,
    _row_count,
    _footer_finalized,
    _footer_increment_complete,
    emitted,        \* what the consumer of _get_rows has received so far
    footer_ret,     \* outcome of the last _get_footer call of this run
    finalized_n,    \* finalized_n[c]: finalize_footer calls on column c in this run
    fold_footer,    \* a lone column: its footer option (a merge column: its class),
    fold_cells,     \* the cells handed to its increment_footer, one per row,
    fold_i,         \* how many of them have been handed over,
    fold_total,     \* and the running total (TypeError once the call raised)
    dirty_inputs,   \* Report.dirty_inputs: the raw user inputs last accepted
    clean_inputs,   \* Report.clean_inputs: the validated user inputs
    user_input_errors,
    _unique_id_override,
    cache,          \* Report.cache: the class of the cache engine
    now,            \* the clock: datetime.utcnow(), and the clock of the Redis server
    creating,       \* create_instance has passed its checks and not yet returned
    create_now,     \* the local `now` of the running create_instance
    run_exc,        \* what the last run_report raised ("" when it returned)
    metadata,       \* LocalCache: the metadata rows of the instance (none or one)
    table,          \* LocalCache: the tables named after the instance (none or one)
    redis,          \* the Redis keyspace: the keys of the instance, value and expiry
    ret,            \* the last accessor call on the instance and its outcome
    procs,          \* the clients calling the Redis cache concurrently
    ran_before,     \* run_report has completed a run on this instance before
    finished_at,    \* when the create_instance of the cached instance returned
    database_metadata,  \* LocalCache, all instances: the rows of the metadata table
    database_tables,    \* LocalCache, all instances: the names of the instance tables
    conn_keys,          \* RedisCache, all instances: the keys of the server
    response,           \* what the last report_response call did and returned
    tasks,              \* the parameters the runner was given, not yet taken up
    calls               \* the calls MergeSource.get_rows made on its sub-reports

inputVars == <<key_range, data, _sources, footer_opt>>

genVars == <<pc, pos, current_key, current_row, pending, parts, emitted>>

footerVars == <<_footer, _row_count, _footer_finalized, _footer_increment_complete,
                footer_ret, finalized_n>>

foldVars == <<fold_footer, fold_cells, fold_i, fold_total>>

userVars == <<dirty_inputs, clean_inputs, user_input_errors, _unique_id_override>>

\* the stores of the two engines with the instances of every report
storeVars == <<database_metadata, database_tables, conn_keys>>

\* the frontend helper and the task queue of its runner
helperVars == <<response, tasks>>

cacheVars == <<storeVars, helperVars, calls, cache, now, creating, create_now, run_exc, metadata, table, redis, ret,
               procs, ran_before, finished_at>>

vars == <<inputVars, genVars, footerVars, foldVars, userVars, cacheVars>>

NoKey == 0

NoItem == [key |-> NoKey, src |-> "-", row |-> PyNone]

\* ------------------------------------------------------------------------
\* The streams handed to heapq.merge
\* ------------------------------------------------------------------------
\* Report._get_key_rows: one (key, {key name: key}) pair per key
_get_key_rows ==
    [i \in 1..Len(key_range) |->
        [key |-> key_range[i], row |-> (KeyName :> PyInt(key_range[i]))]]

\* Source.get_rows of source s; DerivedSource inherits the empty default
get_rows(s) == IF s = "D" THEN <<>> ELSE data[s]

\* source_rows: the sources' streams in _sources order, then the key rows
NStreams == Len(_sources) + 1

StreamId(i) == IF i <= Len(_sources) THEN _sources[i] ELSE "K"

StreamOf(i) == IF i <= Len(_sources) THEN get_rows(_sources[i]) ELSE _get_key_rows

\* the streams heapq.merge has not exhausted
Live(p) == {i \in 1..NStreams : p[i] < Len(StreamOf(i))}

HeapHead(p, i) ==
    LET it == StreamOf(i)[p[i] + 1]
    IN [key |-> it.key, src |-> StreamId(i), row |-> it.row]

\* a heap that puts the larger key first
EntryLessMaxFirst(p, i, j) ==
    LET x == HeapHead(p, i)
        y == HeapHead(p, j)
    IN \/ x.key > y.key
       \/ /\ x.key = y.key
          /\ \/ DictCmp(x.row, y.row) < 0
             \/ DictCmp(x.row, y.row) = 0 /\ i < j

\* order of the heap entries [(key, row), itnum, next] of heapq.merge
EntryLess(p, i, j) ==
    LET x == HeapHead(p, i)
        y == HeapHead(p, j)
    IN \/ x.key < y.key
       \/ /\ x.key = y.key
          /\ \/ DictCmp(x.row, y.row) < 0
             \/ DictCmp(x.row, y.row) = 0 /\ i < j

\* itertools.chain in place of heapq.merge: the streams one after the other
HeapMinChain(p) == CHOOSE i \in Live(p) : \A j \in Live(p) : i <= j

\* the stream whose head heapq.merge yields next
HeapMin(p) == CHOOSE i \in Live(p) : \A j \in Live(p) \ {i} : EntryLess(p, i, j)

\* the for loop of Report._get_rows, run from generator state g up to its
\* next yield ("yield") or to the exhaustion of heapq.merge ("end")
RECURSIVE MergeLoop(_)
MergeLoop(g) ==
    IF Live(g.pos) = {}
    THEN [g EXCEPT !.stop = "end"]
    ELSE LET i == HeapMin(g.pos)
             item == HeapHead(g.pos, i)
             p2 == [g.pos EXCEPT ![i] = @ + 1]
         IN IF g.key # NoKey /\ g.key = item.key
            THEN MergeLoop([g EXCEPT !.pos = p2,
                                     !.row = Update(g.row, item.row),
                                     !.parts = Append(g.parts, item)])
            ELSE IF g.key # NoKey
            THEN [g EXCEPT !.pos = p2, !.stop = "yield", !.pending = item]
            ELSE MergeLoop([g EXCEPT !.pos = p2,
                                     !.key = item.key,
                                     !.row = Update(empty_row, item.row),
                                     !.parts = <<item>>])

\* Source.post_process, StaticSource aside: DerivedSource sets its columns
post_process(s, row) ==
    IF s = "D" THEN [row EXCEPT !["r"] = get_derived_value(row)] ELSE row

\* for source in self._sources: current_row = source.post_process(...)
RECURSIVE PostProcessFrom(_, _)
PostProcessFrom(i, row) ==
    IF i > Len(_sources) THEN row
    ELSE PostProcessFrom(i + 1, post_process(_sources[i], row))

\* Report._increment_footer, the footer part
_increment_footer(footer, row) ==
    [c \in DOMAIN footer |-> increment_footer(footer_opt[c], footer[c], row[c])]

\* the finalization loop of Report._get_footer over the keys in `order`,
\* each column seeing the footer dict as the loop has changed it so far
RECURSIVE FinalizeFrom(_, _, _)
FinalizeFrom(order, i, footer) ==
    IF i > Len(order) THEN footer
    ELSE LET c == order[i]
             v == IF IsDerived(c)
                  THEN Value_finalize_footer(footer_opt[c], footer[c], footer)
                  ELSE finalize_footer(footer[c], footer)
         IN FinalizeFrom(order, i + 1, [footer EXCEPT ![c] = v])

PlainColumns == SelectSeq(columns, LAMBDA c : ~IsDerived(c))

\* the orders in which the footer dict can list its keys; finalize_footer of
\* a plain column is the identity, so only the order among the derived
\* columns shows and the plain columns are listed first
KeyOrders ==
    {PlainColumns \o o : o \in {d \in [1..Len(DerivedColumns) -> ColumnNames] :
        /\ \A i \in 1..Len(DerivedColumns) : IsDerived(d[i])
        /\ \A i, j \in 1..Len(DerivedColumns) : i # j => d[i] # d[j]}}

\* ------------------------------------------------------------------------
\* Inputs: what the key range and the data sources yield
\* ------------------------------------------------------------------------
Items(rows) == {[key |-> k, row |-> r] : k \in Keys, r \in rows}

\* partial rows of the merge scenarios: one field each, so that two sources
\* fill different columns ({'a': 1} and {'b': 2}) or the same column of a key
RowsA == {("a" :> PyInt(1))}

RowsB == {("a" :> PyInt(2)), ("b" :> PyInt(2))}

\* cells of the footer scenarios
CellsA == {PyNone, PyStr, PyInt(1), PyInt(2)}

CellsB == {PyNone, PyInt(0), PyInt(1), PyInt(2)}

FullRows == {("a" :> x) @@ ("b" :> y) : x \in CellsA, y \in CellsB}

\* a stream with one full row for each of the keys 1..n
KeyedRows ==
    {s \in SeqsUpTo(Items(FullRows), MaxLen) : \A i \in 1..Len(s) : s[i].key = i}

NonDecreasing(s) == \A i \in 1..Len(s) - 1 : s[i].key <= s[i + 1].key

\* no unique_id assigned: the attribute is missing
NoOverride == <<>>

\* dict.get(k, default)
Get(d, k, default) == IF k \in DOMAIN d THEN d[k] ELSE default

EmptyDict == [k \in {} |-> ""]

\* a report without filters: no user inputs, nothing to validate
NoUser ==
    /\ dirty_inputs = EmptyDict
    /\ clean_inputs = EmptyDict
    /\ user_input_errors = <<>>
    /\ _unique_id_override = NoOverride

\* no accessor of the cache has been called
NoCall == [op |-> "", exc |-> "", val |-> <<>>]

\* no instance of any report is cached
NoInstances ==
    /\ database_metadata = {}
    /\ database_tables = {}
    /\ conn_keys = {}

\* report_response has not been called
NoResponse ==
    [seq |-> 0, request |-> <<>>, exc |-> "", keys |-> {}, errors |-> <<>>, poll |-> "",
     runner_calls |-> <<>>, run_report_calls |-> 0]

NoRequests ==
    /\ response = NoResponse
    /\ tasks = {}
    /\ calls = <<>>

\* the report is run without a cache: the cache engine is never called
NoCache ==
    /\ cache = "LocalCache"
    /\ now = 0
    /\ creating = FALSE
    /\ create_now = 0
    /\ run_exc = ""
    /\ metadata = <<>>
    /\ table = <<>>
    /\ redis = EmptyDict
    /\ ret = NoCall
    /\ procs = <<>>
    /\ ran_before = FALSE
    /\ finished_at = <<>>
    /\ NoInstances
    /\ NoRequests

\* no lone column is being folded
NoFold ==
    /\ fold_footer = TRUE
    /\ fold_cells = <<>>
    /\ fold_i = 0
    /\ fold_total = PyNone

\* Report.__init__ (the footer state) with no run started
InitRun ==
    /\ pc = "idle"
    /\ pos = [i \in 1..NStreams |-> 0]
    /\ current_key = NoKey
    /\ current_row = PyNone
    /\ pending = NoItem
    /\ parts = <<>>
    /\ emitted = <<>>
    /\ _footer = [c \in ColumnNames |-> PyNone]
    /\ _row_count = 0
    /\ _footer_finalized = FALSE
    /\ _footer_increment_complete = FALSE
    /\ footer_ret = [exc |-> "", val |-> PyNone]
    /\ finalized_n = [c \in ColumnNames |-> 0]

\* several streams to merge, sorted or not: the key range and both data
\* sources, MaxItems items in all
InitMerge ==
    /\ \E nk, na, nb \in 0..MaxItems :
          /\ nk + na + nb <= MaxItems
          /\ key_range \in [1..nk -> Keys]
          /\ \E sa \in [1..na -> Items(RowsA)], sb \in [1..nb -> Items(RowsB)] :
                data = [d \in DataSources |-> IF d = "A" THEN sa ELSE sb]
    /\ _sources \in SourceOrders
    /\ footer_opt = [c \in ColumnNames |-> c # KeyName]
    /\ InitRun
    /\ NoFold
    /\ NoUser
    /\ NoCache

\* one data source with full rows, for the footers
InitFooter ==
    /\ key_range = <<>>
    /\ \E s \in KeyedRows : data = [d \in DataSources |-> IF d = "A" THEN s ELSE <<>>]
    /\ _sources = <<"A", "B", "D">>
    /\ \E f \in BOOLEAN : footer_opt = [c \in ColumnNames |-> IF c = "b" THEN f ELSE c # KeyName]
    /\ InitRun
    /\ NoFold
    /\ NoUser
    /\ NoCache

Init == InitMerge \/ InitFooter

\* ------------------------------------------------------------------------
\* Operations
\* ------------------------------------------------------------------------
\* a reset that leaves _footer_increment_complete as the last run set it
_init_footer_keeps_complete ==
    /\ _footer_finalized' = FALSE
    /\ UNCHANGED _footer_increment_complete
    /\ _footer' = [c \in ColumnNames |-> PyNone]
    /\ _row_count' = 0

\* a reset of the two flags only: the totals and the row count carry over
_init_footer_keeps_totals ==
    /\ _footer_finalized' = FALSE
    /\ _footer_increment_complete' = FALSE
    /\ UNCHANGED <<_footer, _row_count>>

\* Report._init_footer
_init_footer ==
    /\ _footer_finalized' = FALSE
    /\ _footer_increment_complete' = FALSE
    /\ _footer' = [c \in ColumnNames |-> PyNone]
    /\ _row_count' = 0

\* Report.run_report up to the creation of the _get_rows generator: the
\* footer is reset and the consumer is handed a generator not yet started;
\* the generator of the run before was consumed to its end or never started
StartRun ==
    /\ pc \in {"idle", "new", "done"}
    /\ _init_footer
    /\ pc' = "new"
    /\ pos' = [i \in 1..NStreams |-> 0]
    /\ current_key' = NoKey
    /\ current_row' = PyNone
    /\ pending' = NoItem
    /\ parts' = <<>>
    /\ emitted' = <<>>
    /\ footer_ret' = [exc |-> "", val |-> PyNone]
    /\ finalized_n' = [c \in ColumnNames |-> 0]
    /\ UNCHANGED <<inputVars, foldVars, userVars>>

\* the generator state from which the for loop continues
Resume ==
    IF pc = "new"
    THEN [pos |-> pos, key |-> NoKey, row |-> PyNone, parts |-> <<>>,
          stop |-> "", pending |-> NoItem]
    ELSE [pos |-> pos, key |-> pending.key, row |-> Update(empty_row, pending.row),
          parts |-> <<pending>>, stop |-> "", pending |-> NoItem]

\* a generator that emits the last row without _increment_footer
NextRow_last_uncounted ==
    /\ pc \in {"new", "yield", "last"}
    /\ IF pc = "last"
       THEN /\ pc' = "done"
            /\ _footer_increment_complete' = TRUE
            /\ UNCHANGED <<pos, current_key, current_row, pending, parts, emitted,
                           _footer, _row_count>>
       ELSE LET g == MergeLoop(Resume)
                row == PostProcessFrom(1, g.row)
            IN IF g.row = PyNone
               THEN /\ pc' = "done"
                    /\ _footer_increment_complete' = TRUE
                    /\ UNCHANGED <<pos, current_key, current_row, pending, parts,
                                   emitted, _footer, _row_count>>
               ELSE /\ pc' = IF g.stop = "yield" THEN "yield" ELSE "last"
                    /\ pos' = g.pos
                    /\ current_key' = g.key
                    /\ current_row' = row
                    /\ pending' = g.pending
                    /\ parts' = g.parts
                    /\ _row_count' = IF g.stop = "yield" THEN _row_count + 1 ELSE _row_count
                    /\ _footer' = IF g.stop = "yield" THEN _increment_footer(_footer, row)
                                  ELSE _footer
                    /\ emitted' = Append(emitted,
                                         [key |-> g.key, parts |-> g.parts, row |-> row])
                    /\ UNCHANGED _footer_increment_complete
    /\ UNCHANGED <<inputVars, _footer_finalized, footer_ret, finalized_n, foldVars, userVars>>

\* one next() on the generator of Report._get_rows: the loop runs to the next
\* yield, where the completed row has passed every post_process and
\* _increment_footer, or to the end of the generator
NextRow ==
    /\ pc \in {"new", "yield", "last"}
    /\ IF pc = "last"
       THEN /\ pc' = "done"
            /\ _footer_increment_complete' = TRUE
            /\ UNCHANGED <<pos, current_key, current_row, pending, parts, emitted,
                           _footer, _row_count>>
       ELSE LET g == MergeLoop(Resume)
                row == PostProcessFrom(1, g.row)
            IN IF g.row = PyNone
               THEN /\ pc' = "done"
                    /\ _footer_increment_complete' = TRUE
                    /\ UNCHANGED <<pos, current_key, current_row, pending, parts,
                                   emitted, _footer, _row_count>>
               ELSE /\ pc' = IF g.stop = "yield" THEN "yield" ELSE "last"
                    /\ pos' = g.pos
                    /\ current_key' = g.key
                    /\ current_row' = row
                    /\ pending' = g.pending
                    /\ parts' = g.parts
                    /\ _row_count' = _row_count + 1
                    /\ _footer' = _increment_footer(_footer, row)
                    /\ emitted' = Append(emitted,
                                         [key |-> g.key, parts |-> g.parts, row |-> row])
                    /\ UNCHANGED _footer_increment_complete
    /\ UNCHANGED <<inputVars, _footer_finalized, footer_ret, finalized_n, foldVars, userVars>>

\* _get_footer without its _footer_finalized flag: every call finalizes
GetFooterUnflagged ==
    /\ IF ~_footer_increment_complete
       THEN /\ footer_ret' = [exc |-> "ValueError", val |-> PyNone]
            /\ UNCHANGED <<_footer, _footer_finalized, finalized_n>>
       ELSE \E order \in KeyOrders :
                /\ _footer' = FinalizeFrom(order, 1, _footer)
                /\ UNCHANGED _footer_finalized
                /\ finalized_n' = [c \in ColumnNames |-> finalized_n[c] + 1]
                /\ \A c \in ColumnNames : finalized_n[c] < MaxFinalize
                /\ footer_ret' = [exc |-> "", val |-> _footer']
    /\ UNCHANGED <<inputVars, genVars, _row_count, _footer_increment_complete, foldVars, userVars>>

\* Report._get_footer
GetFooter ==
    /\ IF ~_footer_increment_complete
       THEN /\ footer_ret' = [exc |-> "ValueError", val |-> PyNone]
            /\ UNCHANGED <<_footer, _footer_finalized, finalized_n>>
       ELSE IF ~_footer_finalized
       THEN \E order \in KeyOrders :
                /\ _footer' = FinalizeFrom(order, 1, _footer)
                /\ _footer_finalized' = TRUE
                /\ finalized_n' = [c \in ColumnNames |-> finalized_n[c] + 1]
                /\ \A c \in ColumnNames : finalized_n[c] < MaxFinalize
                /\ footer_ret' = [exc |-> "", val |-> _footer']
       ELSE /\ footer_ret' = [exc |-> "", val |-> _footer]
            /\ UNCHANGED <<_footer, _footer_finalized, finalized_n>>
    /\ UNCHANGED <<inputVars, genVars, _row_count, _footer_increment_complete, foldVars, userVars>>

\* the report on its own: whoever consumes the rows calls nothing of a cache
Next ==
    \/ StartRun /\ UNCHANGED cacheVars
    \/ NextRow /\ UNCHANGED cacheVars
    \/ GetFooter /\ UNCHANGED cacheVars

Spec == Init /\ [][Next]_vars

\* ------------------------------------------------------------------------
\* Column.increment_footer on its own: one column, any sequence of cells
\* ------------------------------------------------------------------------
FoldCells ==
    {PyNone, PyStr, PyInt(5), PyInt(10), PyLong(5), PyDec(5), PyFloat(10)}

\* a report with no keys and no data, never run
InitNoReport ==
    /\ key_range = <<>>
    /\ data = [d \in DataSources |-> <<>>]
    /\ _sources = <<"A", "B", "D">>
    /\ footer_opt = [c \in ColumnNames |-> c # KeyName]
    /\ InitRun

InitFold ==
    /\ InitNoReport
    /\ fold_footer \in BOOLEAN
    /\ fold_cells \in SeqsUpTo(FoldCells, MaxCells)
    /\ fold_i = 0
    /\ fold_total = PyNone
    /\ NoUser
    /\ NoCache

\* total = column.increment_footer(total, cell) for the next cell; a call
\* that raises ends the fold
FoldStep ==
    /\ fold_i < Len(fold_cells)
    /\ fold_total # TypeError
    /\ fold_total' = increment_footer(fold_footer, fold_total, fold_cells[fold_i + 1])
    /\ fold_i' = fold_i + 1
    /\ UNCHANGED <<fold_footer, fold_cells, inputVars, genVars, footerVars, userVars,
                   cacheVars>>

NextFold == FoldStep

SpecFold == InitFold /\ [][NextFold]_vars

\* ------------------------------------------------------------------------
\* Properties of the merged rows
\* ------------------------------------------------------------------------
\* every stream handed to heapq.merge is non-decreasing by key
AllSorted ==
    /\ NonDecreasing(_get_key_rows)
    /\ \A s \in DataSources : NonDecreasing(data[s])

\* the keys of the key range and of the data sources
StreamKeys ==
    {key_range[i] : i \in 1..Len(key_range)}
        \cup UNION {{data[s][i].key : i \in 1..Len(data[s])} : s \in DataSources}

\* how many partial rows the streams hold for key k
InputCount(k) ==
    Cardinality({i \in 1..Len(key_range) : key_range[i] = k})
        + Cardinality({i \in 1..Len(data["A"]) : data["A"][i].key = k})
        + Cardinality({i \in 1..Len(data["B"]) : data["B"][i].key = k})

EmittedKeys == {emitted[i].key : i \in 1..Len(emitted)}

\* C1: when every stream is non-decreasing by key, the run emits as many rows
\* as there are distinct keys in the key range and the sources together, one
\* for each of those keys.
RowPerDistinctKey ==
    (pc = "done" /\ AllSorted) =>
        /\ Len(emitted) = Cardinality(StreamKeys)
        /\ EmittedKeys = StreamKeys

\* a finished run over sorted streams where a key of the range is also a
\* source's key and another source brings a key the range lacks
RowPerDistinctKeyWitness ==
    /\ pc = "done"
    /\ AllSorted
    /\ Len(key_range) = 1 /\ Len(data["A"]) = 1 /\ Len(data["B"]) = 1
    /\ data["A"][1].key = key_range[1]
    /\ data["B"][1].key # key_range[1]
    /\ Len(emitted) = 2

\* C2: when every stream is non-decreasing by key, the emitted rows are
\* strictly increasing by key: no key twice, none out of order.
StrictlyIncreasingKeys ==
    AllSorted => \A i \in 1..Len(emitted) - 1 : emitted[i].key < emitted[i + 1].key

\* two rows out, the first key from one data source and the second from the
\* other, each also in the key range
StrictlyIncreasingKeysWitness ==
    /\ AllSorted
    /\ Len(emitted) = 2
    /\ Len(data["A"]) + Len(data["B"]) >= 1
    /\ Len(key_range) = 2
    /\ emitted[1].key < emitted[2].key

\* C3: every emitted row has every declared column; a key that only the key
\* range supplies gets a row whose other columns are all None, so a range of
\* two keys over sources without rows gives exactly two rows.
EveryColumnPresent ==
    /\ \A i \in 1..Len(emitted) :
          /\ ColumnNames \subseteq DOMAIN emitted[i].row
          /\ (\A s \in DataSources : \A j \in 1..Len(data[s]) :
                    data[s][j].key # emitted[i].key)
                => emitted[i].row = [c \in ColumnNames |->
                       IF c = KeyName THEN PyInt(emitted[i].key) ELSE PyNone]
    /\ (/\ pc = "done"
        /\ key_range = <<1, 2>>
        /\ \A s \in DataSources : data[s] = <<>>) => Len(emitted) = 2

\* the two-key range over a source with a row for one of the keys, run to
\* its end: the other key's row holds None in every column but the key
EveryColumnPresentWitness ==
    /\ pc = "done"
    /\ key_range = <<1, 2>>
    /\ Len(data["A"]) = 1 /\ data["A"][1].key = 1
    /\ data["B"] = <<>>
    /\ Len(emitted) = 2
    /\ emitted[2].row = [c \in ColumnNames |-> IF c = KeyName THEN PyInt(2) ELSE PyNone]

\* the value of column c in the last of the partial rows ps that has it
LastValue(ps, c) ==
    LET idx == {i \in 1..Len(ps) : c \in DOMAIN ps[i].row}
    IN IF idx = {} THEN PyNone
       ELSE ps[CHOOSE i \in idx : \A j \in idx : j <= i].row[c]

\* C4: the partial rows of one key are merged field by field over the
\* all-None template: a later partial's fields overwrite, the fields it lacks
\* stay; {'a': 1} and {'b': 2} for a key of the range give a = 1, b = 2 and
\* the key field.
FieldWiseMerge ==
    /\ \A i \in 1..Len(emitted) :
          /\ \A j \in 1..Len(emitted[i].parts) : emitted[i].parts[j].key = emitted[i].key
          /\ AllSorted => Len(emitted[i].parts) = InputCount(emitted[i].key)
          /\ \A c \in ColumnNames :
                ~IsDerived(c) => emitted[i].row[c] = LastValue(emitted[i].parts, c)
    /\ (/\ pc = "done"
        /\ key_range = <<1>>
        /\ data["A"] = <<[key |-> 1, row |-> ("a" :> PyInt(1))]>>
        /\ data["B"] = <<[key |-> 1, row |-> ("b" :> PyInt(2))]>>)
          => /\ Len(emitted) = 1
             /\ emitted[1].row["a"] = PyInt(1)
             /\ emitted[1].row["b"] = PyInt(2)
             /\ emitted[1].row[KeyName] = PyInt(1)

\* the row of a key that the key range, A and B each hold once
FieldWiseMergeWitness ==
    /\ Len(emitted) = 1
    /\ Len(emitted[1].parts) = 3
    /\ emitted[1].row["a"] = PyInt(1)
    /\ emitted[1].row["b"] = PyInt(2)
    /\ emitted[1].row[KeyName] = PyInt(emitted[1].key)

\* the partial rows of source s for key k that hold column c
Partials(s, k, c) ==
    {j \in 1..Len(data[s]) : data[s][j].key = k /\ c \in DOMAIN data[s][j].row}

SourceIndex(s) == CHOOSE i \in 1..Len(_sources) : _sources[i] = s

\* the data source that the report lists last
LastSource == IF SourceIndex("A") > SourceIndex("B") THEN "A" ELSE "B"

\* C5: when two data sources fill the same column of the same key, the row
\* holds the value of the source that comes last in the report's fixed order
\* of sources.
LastSourceWins ==
    AllSorted =>
        \A i \in 1..Len(emitted) : \A c \in {"a", "b"} :
            LET k == emitted[i].key
            IN (Cardinality(Partials("A", k, c)) = 1 /\ Cardinality(Partials("B", k, c)) = 1)
                  => emitted[i].row[c] =
                        data[LastSource][CHOOSE j \in Partials(LastSource, k, c) : TRUE].row[c]

\* ------------------------------------------------------------------------
\* Properties of the footer
\* ------------------------------------------------------------------------
\* C6: a call of _get_footer made before the row stream has been consumed to
\* its end raises and neither returns nor finalizes any total.
FooterRaisesBeforeEnd ==
    [][(GetFooter /\ pc # "done") =>
          /\ footer_ret'.exc = "ValueError"
          /\ footer_ret'.val = PyNone
          /\ _footer' = _footer
          /\ ~_footer_finalized']_vars

\* _get_footer has raised with one row out and more to come
FooterRaisesBeforeEndWitness ==
    /\ pc = "yield"
    /\ Len(emitted) = 1
    /\ _footer["a"] # PyNone
    /\ footer_ret.exc = "ValueError"

\* C7: in one run every column's finalize_footer is applied exactly once, by
\* the first _get_footer call after the end of the rows; every later call
\* returns the same footer and changes nothing.
FooterFinalizedOnce ==
    /\ [](\A c \in ColumnNames :
            /\ finalized_n[c] <= 1
            /\ _footer_finalized <=> finalized_n[c] = 1
            /\ _footer_finalized => (footer_ret.exc = "" /\ footer_ret.val = _footer))
    /\ [][(GetFooter /\ _footer_finalized) =>
            (footer_ret' = footer_ret /\ _footer' = _footer)]_vars

\* a finalized footer of a run with rows, the derived column's footer
\* produced by its derive function
FooterFinalizedOnceWitness ==
    /\ _footer_finalized
    /\ Len(emitted) = 2
    /\ finalized_n["r"] = 1
    /\ footer_opt["b"]
    /\ _footer["b"].t = "int" /\ _footer["b"].v > 0
    /\ _footer["a"].t = "int"
    /\ footer_ret.val = _footer

\* the sum of the numeric cells of column c in the rows i.. of the emitted
\* rows, on top of acc; None when there is none
RECURSIVE NumericSum(_, _, _)
NumericSum(c, i, acc) ==
    IF i > Len(emitted) THEN acc
    ELSE LET cell == emitted[i].row[c]
         IN IF cell.t \notin ADD_TYPES THEN NumericSum(c, i + 1, acc)
            ELSE IF acc = PyNone THEN NumericSum(c, i + 1, cell)
            ELSE NumericSum(c, i + 1, [t |-> SumType(acc.t, cell.t), v |-> acc.v + cell.v])

\* C9, as stated: a column that has met a non-numeric cell in this run has
\* the running total None.
NonNumericCollapsesTotal ==
    \A c \in ColumnNames :
        (/\ footer_opt[c]
         /\ ~_footer_finalized
         /\ \E i \in 1..Len(emitted) : emitted[i].row[c].t \notin ADD_TYPES)
            => _footer[c] = PyNone

\* C9: a non-numeric cell leaves a column's running total as it was: the
\* total is None until the first numeric cell and from then on the sum of the
\* numeric cells met so far, whatever non-numeric cells came between.
NonNumericKeepsTotal ==
    \A c \in ColumnNames :
        (footer_opt[c] /\ ~_footer_finalized) => _footer[c] = NumericSum(c, 1, PyNone)

\* a number, then a string in column a: the total is still the number
NonNumericKeepsTotalWitness ==
    /\ Len(emitted) = 2
    /\ ~_footer_finalized
    /\ emitted[1].row["a"] = PyInt(2)
    /\ emitted[2].row["a"] = PyStr
    /\ _footer["a"] = PyInt(2)

\* the footer totals of columns a and b
FooterTotals == ("a" :> _footer["a"]) @@ ("b" :> _footer["b"])

\* the derive function of r over the footer totals, its errors answered as
\* they are for a cell
DeriveOverTotals ==
    LET res == derive_func(FooterTotals)
    IN IF res.exc = "" THEN res.val
       ELSE IF res.exc \in DIVISION_BY_ZERO THEN PyDec(0)
       ELSE PyNone

\* C10: the finalized footer of the derived column r, footer enabled, is its
\* derive function applied to the footer totals of the columns a and b, and
\* so never the sum of the rows' derived values where the two differ.
DerivedFooterFromTotals ==
    (_footer_finalized /\ footer_opt["r"]) => _footer["r"] = DeriveOverTotals

\* ------------------------------------------------------------------------
\* Properties of Column.increment_footer folded over a sequence of cells
\* ------------------------------------------------------------------------
\* the magnitudes of the numeric cells of cs, added up
RECURSIVE SumOfNumeric(_)
SumOfNumeric(cs) ==
    IF cs = <<>> THEN 0
    ELSE (IF Head(cs).t \in ADD_TYPES THEN Head(cs).v ELSE 0) + SumOfNumeric(Tail(cs))

HasNumeric(cs) == \E i \in 1..Len(cs) : cs[i].t \in ADD_TYPES

\* C8: with the footer enabled, the fold of increment_footer from None over
\* the cells ends in the sum of the numeric cells, or in None when no cell is
\* numeric.
FoldIsNumericSum ==
    (fold_footer /\ fold_i = Len(fold_cells)) =>
        IF HasNumeric(fold_cells)
        THEN fold_total.t \in ADD_TYPES /\ fold_total.v = SumOfNumeric(fold_cells)
        ELSE fold_total = PyNone

DerivedColumnKeepsNoTotal ==
    ~_footer_finalized => _footer["r"] = PyNone

\* ------------------------------------------------------------------------
\* User inputs: Report.clean_user_inputs and Report.unique_id
\* ------------------------------------------------------------------------
\* The report of this part has two filters with widgets, in this order: "s",
\* a widgets.Select over the choices ((None, 'All'), (True, 'Active'),
\* (False, 'Inactive')), and "c", a widgets.Checkbox; neither is required.
MaxArgs == 2

filters == <<"s", "c">>

\* Widget.form_name: '<report code name>_<name>'
form_name(w) == "report_" \o w

\* raw inputs as a form posts them, and None
RawNone == "<None>"

RawInputs == {"", "1", "2", "bad"}

\* truthiness of a raw input
Truthy(x) == x # RawNone /\ x # ""

ValidationError == "ValidationError"

\* Widget.clean of a widget that is not required: [exc, val]
Widget_clean(user_input) ==
    IF user_input \in {RawNone, ""} THEN [exc |-> "", val |-> "None"]
    ELSE [exc |-> "", val |-> user_input]

\* Select.clean: int() of the input indexes the choices
Select_clean(user_input) ==
    LET u == Widget_clean(user_input).val
    IN IF u = "1" THEN [exc |-> "", val |-> "True"]
       ELSE IF u = "2" THEN [exc |-> "", val |-> "False"]
       ELSE [exc |-> ValidationError, val |-> "Please choose a valid option."]

\* Checkbox.clean: bool() of the input
Checkbox_clean(user_input) ==
    LET u == Widget_clean(user_input).val
    IN [exc |-> "", val |-> IF u = "None" THEN "False" ELSE "True"]

clean(w, user_input) ==
    IF w = "s" THEN Select_clean(user_input) ELSE Checkbox_clean(user_input)

\* the keyword arguments of a clean_user_inputs call: at most MaxArgs of the
\* widgets' form names and plain names, each with a raw input
KwargKeys == {form_name(filters[i]) : i \in 1..Len(filters)}
                \cup {filters[i] : i \in 1..Len(filters)}

Kwargs ==
    UNION {[K -> RawInputs] : K \in {K \in SUBSET KwargKeys : Cardinality(K) <= MaxArgs}}

\* the loop of clean_user_inputs over the filters from the i-th on;
\* st = [dirty, clean, errors] are the locals dirty_inputs, clean_inputs, errors
RECURSIVE CleanFrom(_, _, _)
CleanFrom(kwargs, i, st) ==
    IF i > Len(filters) THEN st
    ELSE LET w == filters[i]
             first == Get(kwargs, form_name(w), Get(st.dirty, form_name(w), RawNone))
             name == IF Truthy(first) THEN form_name(w) ELSE w
             dirty_input == IF Truthy(first) THEN first
                            ELSE Get(kwargs, w, Get(st.dirty, w, RawNone))
             res == clean(w, dirty_input)
             d2 == [k \in (DOMAIN st.dirty) \cup {name} |->
                       IF k = name THEN dirty_input ELSE st.dirty[k]]
         IN CleanFrom(kwargs, i + 1,
                IF res.exc = ""
                THEN [dirty |-> d2,
                      clean |-> [k \in (DOMAIN st.clean) \cup {w} |->
                                    IF k = w THEN res.val ELSE st.clean[k]],
                      errors |-> st.errors]
                ELSE [dirty |-> d2, clean |-> st.clean,
                      errors |-> Append(st.errors, res.val)])

\* storing the raw inputs without regard to the errors
clean_user_inputs_stores_always(kwargs) ==
    LET st == CleanFrom(kwargs, 1, [dirty |-> dirty_inputs, clean |-> EmptyDict,
                                    errors |-> <<>>])
    IN /\ user_input_errors' = st.errors
       /\ dirty_inputs' = st.dirty
       /\ clean_inputs' = IF st.errors # <<>> THEN EmptyDict ELSE st.clean
       /\ UNCHANGED <<_unique_id_override, inputVars, genVars, footerVars, foldVars,
                      cacheVars>>

\* Report.clean_user_inputs(**kwargs)
clean_user_inputs(kwargs) ==
    LET st == CleanFrom(kwargs, 1, [dirty |-> dirty_inputs, clean |-> EmptyDict,
                                    errors |-> <<>>])
    IN /\ user_input_errors' = st.errors
       /\ IF st.errors # <<>>
          THEN clean_inputs' = EmptyDict /\ UNCHANGED dirty_inputs
          ELSE dirty_inputs' = st.dirty /\ clean_inputs' = st.clean
       /\ UNCHANGED <<_unique_id_override, inputVars, genVars, footerVars, foldVars,
                      cacheVars>>

CleanUserInputs == \E kwargs \in Kwargs : clean_user_inputs(kwargs)

\* the values the unique_id setter is given
Overrides == {<<"my_unique_id", <<"1234">>>>}

\* the unique_id setter
SetUniqueId ==
    /\ _unique_id_override' \in Overrides
    /\ UNCHANGED <<dirty_inputs, clean_inputs, user_input_errors,
                   inputVars, genVars, footerVars, foldVars, cacheVars>>

\* '%s' of a raw input
StrOf(x) == IF x = RawNone THEN "None" ELSE x

\* Widget.get_unique_id, Select.get_unique_id: '<form name>|<input>', the
\* Select's with its constant list of choice values appended
get_unique_id(w, dirty) ==
    LET first == Get(dirty, form_name(w), RawNone)
        user_input == IF Truthy(first) THEN StrOf(first) ELSE StrOf(Get(dirty, w, ""))
    IN <<form_name(w), user_input, IF w = "s" THEN "False,None,True," ELSE "">>

\* ":".join(sorted(widget_unique_ids)): the ids differ in their form names,
\* so the sorted list is the list by form name, report_c before report_s
user_input_string(dirty) == <<get_unique_id("c", dirty), get_unique_id("s", dirty)>>

\* hashlib.sha1(...).hexdigest()[::2], taken to tell apart the strings it
\* is given
user_input_hash(str) == <<"sha1", str>>

code_name == "report"

\* Report.unique_id
unique_id ==
    IF _unique_id_override # NoOverride THEN _unique_id_override
    ELSE <<code_name, user_input_hash(user_input_string(dirty_inputs))>>

\* Report.__init__ ends with clean_user_inputs(): the Select has no input
InitUser ==
    /\ dirty_inputs = EmptyDict
    /\ clean_inputs = EmptyDict
    /\ user_input_errors = <<"Please choose a valid option.">>
    /\ _unique_id_override = NoOverride

InitInputs == InitNoReport /\ NoFold /\ InitUser /\ NoCache

NextInputs == CleanUserInputs \/ SetUniqueId

SpecInputs == InitInputs /\ [][NextInputs]_vars

\* ------------------------------------------------------------------------
\* Properties of the user inputs
\* ------------------------------------------------------------------------
\* a step of clean_user_inputs: the one operation on the user inputs that
\* leaves the assigned unique_id alone
CleanCall == _unique_id_override' = _unique_id_override

\* C13, as stated: a clean_user_inputs call that finds a validation error
\* leaves dirty_inputs and clean_inputs as they were before the call.
FailedCleanKeepsBoth ==
    [][(CleanCall /\ user_input_errors' # <<>>) =>
          (dirty_inputs' = dirty_inputs /\ clean_inputs' = clean_inputs)]_vars

\* C13: a clean_user_inputs call that finds a validation error returns the
\* non-empty list of errors and leaves dirty_inputs as it was before the
\* call; clean_inputs is emptied.
FailedCleanKeepsDirty ==
    [][(CleanCall /\ user_input_errors' # <<>>) =>
          (dirty_inputs' = dirty_inputs /\ clean_inputs' = EmptyDict)]_vars

\* a failed validation after an accepted one: the accepted raw inputs are
\* still there, the validated ones are gone
FailedCleanKeepsDirtyWitness ==
    /\ user_input_errors # <<>>
    /\ Get(dirty_inputs, form_name("s"), RawNone) = "1"
    /\ clean_inputs = EmptyDict

\* the raw input of widget w as the report reads it back from dirty
Effective(dirty, w) ==
    LET first == Get(dirty, form_name(w), RawNone)
    IN IF Truthy(first) THEN first ELSE Get(dirty, w, RawNone)

\* two raw inputs are the same input; None and '' both are no input
SameInput(x, y) == x = y \/ (~Truthy(x) /\ ~Truthy(y))

Widgets == {filters[i] : i \in 1..Len(filters)}

\* C14: after a failed clean_user_inputs call dirty_inputs is that of the
\* last accepted call, clean_inputs is empty and user_input_errors holds the
\* errors; after an accepted call user_input_errors is empty and, for every
\* widget given an input under its form name only, dirty_inputs holds that
\* input and clean_inputs its cleaned value.
CleanOutcome ==
    [][\A kwargs \in Kwargs : clean_user_inputs(kwargs) =>
          IF user_input_errors' # <<>>
          THEN dirty_inputs' = dirty_inputs /\ clean_inputs' = EmptyDict
          ELSE \A w \in Widgets :
                  (form_name(w) \in DOMAIN kwargs /\ w \notin DOMAIN kwargs) =>
                      /\ SameInput(Effective(dirty_inputs', w), kwargs[form_name(w)])
                      /\ Get(clean_inputs', w, "-") = clean(w, kwargs[form_name(w)]).val]_vars

\* C15: unique_id is stable: a failed clean_user_inputs call does not change
\* it, an accepted call that changes the validated inputs of the last
\* accepted call changes it, and once it has been assigned no
\* clean_user_inputs call changes it.
UniqueIdStable ==
    [][CleanUserInputs =>
          /\ user_input_errors' # <<>> => unique_id' = unique_id
          /\ _unique_id_override # NoOverride => unique_id' = unique_id
          /\ (/\ _unique_id_override = NoOverride
              /\ user_input_errors = <<>>
              /\ user_input_errors' = <<>>
              /\ clean_inputs' # clean_inputs) => unique_id' # unique_id]_vars

\* ------------------------------------------------------------------------
\* The cache engines: one cached instance, named by the report's unique_id
\* ------------------------------------------------------------------------
MaxTime == 3

\* Report.cache_time, in ticks of the clock
CacheTime == 2

Caches == {"LocalCache", "RedisCache"}

\* utils.serialize.encode: a type prefix and the text of the value
encode(x) ==
    CASE x.t = "none" -> [t |-> "None", v |-> 0]
      [] x.t = "int" -> [t |-> "i_", v |-> x.v]
      [] x.t = "float" -> [t |-> "f_", v |-> x.v]
      [] x.t = "Decimal" -> [t |-> "d_", v |-> x.v]
      [] x.t = "str" -> [t |-> "u_", v |-> x.v]
      [] x.t = "datetime" -> [t |-> "t_", v |-> x.v]
      [] OTHER -> [t |-> "ValueError", v |-> 0]

\* utils.serialize.decode: the decoder is chosen by the first character
decode(e) ==
    CASE e.t = "None" -> PyNone
      [] e.t = "i_" -> PyInt(e.v)
      [] e.t = "f_" -> PyFloat(e.v)
      [] e.t = "d_" -> PyDec(e.v)
      [] e.t = "u_" -> [t |-> "str", v |-> e.v]
      [] e.t = "t_" -> [t |-> "datetime", v |-> e.v]
      [] OTHER -> [t |-> "ValueError", v |-> 0]

encode_dict(d) == [c \in DOMAIN d |-> encode(d[c])]

decode_dict(d) == [c \in DOMAIN d |-> decode(d[c])]

\* datetime.utcnow()
utcnow == [t |-> "datetime", v |-> now]

\* the rows the running create_instance has pulled from its row stream
PulledRows == [i \in 1..Len(emitted) |-> emitted[i].row]

\* --- LocalCache: a metadata table and one table per instance --------------
\* LocalCache.is_instance_finished
Local_is_instance_finished ==
    \E i \in 1..Len(metadata) : metadata[i].expires_ts > now

\* LocalCache.create_instance, its first check: a metadata row of the instance
\* that has not expired
Local_instance_exists ==
    \E i \in 1..Len(metadata) : metadata[i].expires_ts > now

\* LocalCache.create_instance, the insert of one row: the table is created
\* for the first row
Local_insert(row) ==
    IF table = <<>> THEN << <<encode_dict(row)>> >>
    ELSE <<Append(table[1], encode_dict(row))>>

\* LocalCache.create_instance, the metadata row written last: insert or replace
Local_metadata(footer) ==
    <<[created_ts |-> create_now, expires_ts |-> create_now + CacheTime,
       footer |-> encode_dict(footer)]>>

\* select rowid as _bling_id, * from the table, each row decoded
Local_rows ==
    {Update(decode_dict(table[1][i]), "_bling_id" :> i) : i \in 1..Len(table[1])}

\* --- RedisCache: the keys of the instance ---------------------------------
TsKey == <<"", 0>>

LockKey == <<"_lock:", 0>>

DoneKey == <<"_done:", 0>>

IdsKey == <<"ids:", 0>>

FooterKey == <<"footer:", 0>>

RowKey(row_id) == <<"row", row_id>>

IndexKey(row_id) == <<"index", row_id>>

NoExpire == <<>>

Exists(r, k) == k \in DOMAIN r

\* SET: the value is replaced and an expiry of the key is dropped
RSet(r, k, v) ==
    [x \in (DOMAIN r) \cup {k} |-> IF x = k THEN [val |-> v, exp |-> NoExpire] ELSE r[x]]

\* DEL of several keys
RDel(r, ks) == [x \in (DOMAIN r) \ ks |-> r[x]]

\* HMSET: the fields are added to the hash at k, or overwrite its fields
RHmset(r, k, mapping) ==
    [x \in (DOMAIN r) \cup {k} |->
        IF x # k THEN r[x]
        ELSE IF k \in DOMAIN r THEN [r[k] EXCEPT !.val = Update(r[k].val, mapping)]
        ELSE [val |-> mapping, exp |-> NoExpire]]

\* SADD
RSadd(r, k, member) ==
    [x \in (DOMAIN r) \cup {k} |->
        IF x # k THEN r[x]
        ELSE IF k \in DOMAIN r THEN [r[k] EXCEPT !.val = r[k].val \cup {member}]
        ELSE [val |-> {member}, exp |-> NoExpire]]

\* EXPIRE of several keys at time t: a key that does not exist is skipped
RExpire(r, ks, t) ==
    [x \in DOMAIN r |-> IF x \in ks THEN [r[x] EXCEPT !.exp = <<t + CacheTime>>] ELSE r[x]]

\* the commands the loop over the rows queues on the pipeline, from row i on
RECURSIVE PipelineRows(_, _, _)
PipelineRows(r, rows, i) ==
    IF i > Len(rows) THEN r
    ELSE LET row_id == i - 1
             r1 == RHmset(r, RowKey(row_id), encode_dict(rows[i]))
             r2 == RSadd(r1, IdsKey, row_id)
             r3 == RHmset(r2, IndexKey(row_id), rows[i])
         IN PipelineRows(r3, rows, i + 1)

\* the local set `keys` of create_instance when the pipeline is executed
PipelineKeys(rows) ==
    {TsKey, FooterKey, DoneKey}
        \cup {RowKey(i - 1) : i \in 1..Len(rows)}
        \cup {IndexKey(i - 1) : i \in 1..Len(rows)}
        \cup (IF rows = <<>> THEN {} ELSE {IdsKey})

\* RedisCache.create_instance, p.execute(): the rows, the footer, the done
\* mark, the expiry of every key written, the release of the lock
Execute(r, rows, footer, t) ==
    LET r1 == PipelineRows(r, rows, 1)
        r2 == RHmset(r1, FooterKey, encode_dict(footer))
        r3 == RSet(r2, DoneKey, "done")
        r4 == RExpire(r3, PipelineKeys(rows), t)
    IN RDel(r4, {LockKey})

\* the ids SORT returns for the ids key
Redis_ids == IF Exists(redis, IdsKey) THEN redis[IdsKey].val ELSE {}

\* HGETALL: the empty dict for a key that does not exist
Hgetall(k) == IF Exists(redis, k) THEN redis[k].val ELSE EmptyDict

Redis_rows ==
    {Update(decode_dict(Hgetall(RowKey(id))), "_bling_id" :> id) : id \in Redis_ids}

\* the keys whose expiry has passed at time t are gone
Expired(r, t) == {k \in DOMAIN r : r[k].exp # NoExpire /\ r[k].exp[1] <= t}

\* --- the report and its cache, used by one client at a time ----------------
\* Report.run_report up to the first row: the footer is reset, the generator
\* is made and create_instance runs its checks
RunReport ==
    /\ ~creating
    /\ StartRun
    /\ IF cache = "LocalCache"
       THEN /\ IF Local_instance_exists
               THEN /\ run_exc' = "InstanceExistsError"
                    /\ UNCHANGED <<creating, create_now, table>>
               ELSE /\ run_exc' = ""
                    /\ creating' = TRUE
                    /\ create_now' = now
                    /\ table' = <<>>
            /\ UNCHANGED <<metadata, redis>>
       ELSE /\ IF Exists(redis, LockKey)
               THEN /\ run_exc' = "InstanceLockError"
                    /\ UNCHANGED <<creating, redis>>
               ELSE IF Exists(redis, TsKey)
               THEN /\ run_exc' = "InstanceExistsError"
                    /\ UNCHANGED <<creating, redis>>
               ELSE /\ run_exc' = ""
                    /\ creating' = TRUE
                    /\ redis' = RSet(RSet(redis, LockKey, "lock"), TsKey, encode(utcnow))
            /\ UNCHANGED <<create_now, metadata, table>>
    /\ ran_before' = (ran_before \/ pc = "done")
    /\ finished_at' = IF creating' THEN <<>> ELSE finished_at
    /\ UNCHANGED <<storeVars, helperVars, calls, cache, now, ret, procs>>

\* create_instance pulls the next row from the row stream and stores it, or
\* finds the stream at its end
CreateRow ==
    /\ creating
    /\ NextRow
    /\ IF cache = "LocalCache" /\ Len(emitted') > Len(emitted)
       THEN table' = Local_insert(emitted'[Len(emitted')].row)
       ELSE UNCHANGED table
    /\ UNCHANGED <<storeVars, helperVars, calls, cache, now, creating, create_now, run_exc, metadata, redis, ret, procs,
                   ran_before, finished_at>>

\* create_instance after the last row: the footer callback, the metadata row
\* or the pipeline, then run_report calls report_finalize and returns
CreateFinish ==
    /\ creating
    /\ pc = "done"
    /\ GetFooter
    /\ IF cache = "LocalCache"
       THEN /\ metadata' = Local_metadata(footer_ret'.val)
            /\ UNCHANGED redis
       ELSE /\ redis' = Execute(redis, PulledRows, footer_ret'.val, now)
            /\ UNCHANGED metadata
    /\ creating' = FALSE
    /\ finished_at' = <<now>>
    /\ UNCHANGED <<storeVars, helperVars, calls, cache, now, create_now, run_exc, table, ret, procs, ran_before>>

\* an except clause of RedisCache.create_instance that releases the lock
\* and leaves the timestamp
CreateRaise_keeps_timestamp ==
    /\ creating
    /\ creating' = FALSE
    /\ run_exc' = "Exception"
    /\ pc' = "idle"
    /\ redis' = IF cache = "RedisCache" THEN RDel(redis, {LockKey}) ELSE redis
    /\ UNCHANGED <<inputVars, pos, current_key, current_row, pending, parts, emitted,
                   footerVars, foldVars, userVars, storeVars, helperVars, calls, cache,
                   now, create_now, metadata, table, ret, procs, ran_before, finished_at>>

\* the row stream or the footer callback raises inside create_instance:
\* RedisCache has queued its commands on a pipeline it never executes, and
\* its except clause deletes the lock and the timestamp; LocalCache has no
\* handler, the rows inserted so far stay in the table and no metadata row
\* is written. The exception leaves run_report, the generator is dropped.
CreateRaise ==
    /\ creating
    /\ creating' = FALSE
    /\ run_exc' = "Exception"
    /\ pc' = "idle"
    /\ redis' = IF cache = "RedisCache" THEN RDel(redis, {LockKey, TsKey}) ELSE redis
    /\ UNCHANGED <<inputVars, pos, current_key, current_row, pending, parts, emitted,
                   footerVars, foldVars, userVars, storeVars, helperVars, calls, cache,
                   now, create_now, metadata, table, ret, procs, ran_before, finished_at>>

\* what an accessor call leaves behind
Returned(op, val) == [op |-> op, exc |-> "", val |-> val]

Raised(op, exc) == [op |-> op, exc |-> exc, val |-> <<>>]

otherVars == <<inputVars, genVars, footerVars, foldVars, userVars>>

cacheStore ==
    <<storeVars, helperVars, calls, cache, now, creating, create_now, run_exc, metadata, table, redis, procs, ran_before,
      finished_at>>

\* what Cache.is_instance_finished returns in this state
Finished ==
    IF cache = "LocalCache" THEN Local_is_instance_finished ELSE Exists(redis, DoneKey)

\* Cache.is_instance_finished
is_instance_finished ==
    /\ ret' = Returned("is_instance_finished", Finished)
    /\ UNCHANGED <<otherVars, cacheStore>>

\* the outcome of Cache.instance_row_count in this state
RowCountOutcome ==
    IF cache = "LocalCache"
    THEN IF ~Local_is_instance_finished
         THEN Raised("instance_row_count", "InstanceIncompleteError")
         ELSE IF table = <<>> THEN Returned("instance_row_count", 0)
         ELSE Returned("instance_row_count", Len(table[1]))
    ELSE IF ~Exists(redis, DoneKey)
         THEN Raised("instance_row_count", "InstanceIncompleteError")
         ELSE Returned("instance_row_count", Cardinality(Redis_ids))

\* Cache.instance_row_count
instance_row_count ==
    /\ ret' = RowCountOutcome
    /\ UNCHANGED <<otherVars, cacheStore>>

\* the outcomes Cache.instance_timestamp can have in this state; the Redis
\* client's conn[key] for a missing key gives None or raises KeyError,
\* depending on its version
TimestampOutcomes ==
    IF cache = "LocalCache"
    THEN IF ~Local_is_instance_finished
         THEN {Raised("instance_timestamp", "InstanceIncompleteError")}
         ELSE {Returned("instance_timestamp", metadata[1].created_ts)}
    ELSE IF ~Exists(redis, TsKey)
         THEN {Raised("instance_timestamp", exc) : exc \in {"InstanceIncompleteError", "KeyError"}}
         ELSE {Returned("instance_timestamp", decode(redis[TsKey].val).v)}

\* Cache.instance_timestamp
instance_timestamp ==
    /\ ret' \in TimestampOutcomes
    /\ UNCHANGED <<otherVars, cacheStore>>

\* the outcome of Cache.instance_rows for all rows, the sort order left out.
\* LocalCache queries the instance table, which does not exist for zero rows
RowsOutcome ==
    IF cache = "LocalCache"
    THEN IF ~Local_is_instance_finished
         THEN Raised("instance_rows", "InstanceIncompleteError")
         ELSE IF table = <<>> THEN Raised("instance_rows", "OperationalError")
         ELSE Returned("instance_rows", Local_rows)
    ELSE IF ~Exists(redis, DoneKey)
         THEN Raised("instance_rows", "InstanceIncompleteError")
         ELSE Returned("instance_rows", Redis_rows)

instance_rows ==
    /\ ret' = RowsOutcome
    /\ UNCHANGED <<otherVars, cacheStore>>

\* Cache.instance_footer
FooterOutcome ==
    IF cache = "LocalCache"
    THEN IF ~Local_is_instance_finished
         THEN Raised("instance_footer", "InstanceIncompleteError")
         ELSE Returned("instance_footer", decode_dict(metadata[1].footer))
    ELSE IF ~Exists(redis, DoneKey)
         THEN Raised("instance_footer", "InstanceIncompleteError")
         ELSE Returned("instance_footer", decode_dict(Hgetall(FooterKey)))

instance_footer ==
    /\ ret' = FooterOutcome
    /\ UNCHANGED <<otherVars, cacheStore>>

\* Report.kill_cache: kill_instance_cache, or kill_report_cache when full
kill_cache ==
    /\ ~creating
    /\ \E full \in BOOLEAN :
          IF cache = "LocalCache"
          THEN /\ IF full /\ metadata = <<>>
                  THEN UNCHANGED <<metadata, table>>
                  ELSE metadata' = <<>> /\ table' = <<>>
               /\ UNCHANGED redis
          ELSE /\ IF ~full /\ Exists(redis, LockKey)
                  THEN UNCHANGED redis
                  ELSE redis' = EmptyDict
               /\ UNCHANGED <<metadata, table>>
    /\ finished_at' = <<>>
    /\ UNCHANGED <<otherVars, storeVars, helperVars, calls, cache, now, creating, create_now, run_exc, ret, procs,
                   ran_before>>

\* time passes: the keys of the Redis server whose expiry is reached are gone
Tick ==
    /\ now < MaxTime
    /\ now' = now + 1
    /\ redis' = RDel(redis, Expired(redis, now + 1))
    /\ UNCHANGED <<otherVars, storeVars, helperVars, calls, cache, creating, create_now, run_exc, metadata, table, ret,
                   procs, ran_before, finished_at>>

CacheRow == ("a" :> PyInt(2)) @@ ("b" :> PyInt(1))

\* a report over the keys 1..nk, a day each, with data for the first days,
\* on either cache engine, the cache empty
InitCache ==
    /\ \E nk \in 0..MaxItems, na \in 0..MaxLen :
          /\ key_range = [i \in 1..nk |-> i]
          /\ data = [d \in DataSources |->
                        IF d = "A" THEN [i \in 1..na |-> [key |-> i, row |-> CacheRow]]
                        ELSE <<>>]
    /\ _sources = <<"A", "B", "D">>
    /\ footer_opt = [c \in ColumnNames |-> c # KeyName]
    /\ InitRun
    /\ NoFold
    /\ NoUser
    /\ cache \in Caches
    /\ now = 0
    /\ creating = FALSE
    /\ create_now = 0
    /\ run_exc = ""
    /\ metadata = <<>>
    /\ table = <<>>
    /\ redis = EmptyDict
    /\ ret = NoCall
    /\ procs = <<>>
    /\ ran_before = FALSE
    /\ finished_at = <<>>
    /\ NoInstances
    /\ NoRequests

NextCache ==
    \/ RunReport
    \/ CreateRow
    \/ CreateFinish
    \/ CreateRaise
    \/ is_instance_finished
    \/ instance_row_count
    \/ instance_timestamp
    \/ instance_rows
    \/ instance_footer
    \/ kill_cache
    \/ Tick

SpecCache == InitCache /\ [][NextCache]_vars

\* ------------------------------------------------------------------------
\* RedisCache called by several clients at once, for one instance. Every
\* command sent to the server is a step; p.execute() is taken as one step
\* ------------------------------------------------------------------------
Writers == {"w1", "w2"}

Clients == Writers \cup {"ki", "kr"}

WriterTag(w) == IF w = "w1" THEN 1 ELSE 2

\* the rows and the footer a writer hands to create_instance
RowsOf(w) ==
    [i \in 1..(IF w = "w1" THEN MaxLen ELSE 1) |->
        ("k" :> PyInt(i)) @@ ("a" :> PyInt(WriterTag(w))) @@ ("b" :> PyNone)
            @@ ("r" :> PyNone)]

FooterOf(w) == [c \in ColumnNames |-> IF c = "a" THEN PyInt(WriterTag(w)) ELSE PyNone]

Idle == [pc |-> "idle", exc |-> "", keys |-> {}]

At(c, pc_, exc, keys) == [procs EXCEPT ![c] = [pc |-> pc_, exc |-> exc, keys |-> keys]]

redisFrame ==
    <<otherVars, storeVars, helperVars, calls, cache, now, creating, create_now, run_exc, metadata, table, ret, ran_before,
      finished_at>>

\* create_instance, line 56: SETNX of the lock
create_setnx(w) ==
    /\ procs[w].pc = "idle"
    /\ IF Exists(redis, LockKey)
       THEN /\ procs' = At(w, "idle", "InstanceLockError", {})
            /\ UNCHANGED redis
       ELSE /\ procs' = At(w, "exists", "", {})
            /\ redis' = RSet(redis, LockKey, "lock")
    /\ UNCHANGED redisFrame

\* create_instance, line 60: EXISTS of the timestamp key
create_exists(w) ==
    /\ procs[w].pc = "exists"
    /\ procs' = At(w, IF Exists(redis, TsKey) THEN "release" ELSE "set_ts", "", {})
    /\ UNCHANGED <<redis, redisFrame>>

\* create_instance, lines 62-63: the lock is deleted and InstanceExistsError raised
create_release(w) ==
    /\ procs[w].pc = "release"
    /\ redis' = RDel(redis, {LockKey})
    /\ procs' = At(w, "idle", "InstanceExistsError", {})
    /\ UNCHANGED redisFrame

\* create_instance, line 64: the timestamp key is set
create_set_ts(w) ==
    /\ procs[w].pc = "set_ts"
    /\ redis' = RSet(redis, TsKey, encode(utcnow))
    /\ procs' = At(w, "rows", "", {})
    /\ UNCHANGED redisFrame

\* create_instance, lines 68-110: the rows are queued and the pipeline executed
create_execute(w) ==
    /\ procs[w].pc = "rows"
    /\ redis' = Execute(redis, RowsOf(w), FooterOf(w), now)
    /\ procs' = At(w, "idle", "", {})
    /\ UNCHANGED redisFrame

\* the except clause that goes straight to the timestamp key
create_raise_keeps_lock(w) ==
    /\ procs[w].pc = "rows"
    /\ procs' = At(w, "cleanup", "", {})
    /\ UNCHANGED <<redis, redisFrame>>

\* create_instance, lines 111-114: the row stream or the footer callback
\* raises before the pipeline is executed; the except clause deletes the lock
create_raise(w) ==
    /\ procs[w].pc = "rows"
    /\ redis' = RDel(redis, {LockKey})
    /\ procs' = At(w, "cleanup", "", {})
    /\ UNCHANGED redisFrame

\* create_instance, lines 115-119: the except clause deletes the timestamp key
\* and raises the exception again
create_cleanup(w) ==
    /\ procs[w].pc = "cleanup"
    /\ redis' = RDel(redis, {TsKey})
    /\ procs' = At(w, "idle", "Exception", {})
    /\ UNCHANGED redisFrame

\* kill_instance_cache, line 124: SETNX of the lock
kill_instance_setnx ==
    /\ procs["ki"].pc = "idle"
    /\ IF Exists(redis, LockKey)
       THEN /\ procs' = At("ki", "idle", "InstanceLockError", {})
            /\ UNCHANGED redis
       ELSE /\ procs' = At("ki", "keys", "", {})
            /\ redis' = RSet(redis, LockKey, "lock")
    /\ UNCHANGED redisFrame

\* kill_instance_cache, line 128, and kill_report_cache, line 137: KEYS
kill_keys(c) ==
    /\ procs[c].pc = IF c = "ki" THEN "keys" ELSE "idle"
    /\ procs' = At(c, "execute", "", DOMAIN redis)
    /\ UNCHANGED <<redis, redisFrame>>

\* kill_instance_cache, lines 129-133, and kill_report_cache, lines 138-139:
\* the keys listed are deleted, and the lock by kill_instance_cache
kill_execute(c) ==
    /\ procs[c].pc = "execute"
    /\ redis' = RDel(redis, procs[c].keys \cup (IF c = "ki" THEN {LockKey} ELSE {}))
    /\ procs' = At(c, "idle", "", {})
    /\ UNCHANGED redisFrame

InitRedis ==
    /\ InitNoReport
    /\ NoFold
    /\ NoUser
    /\ cache = "RedisCache"
    /\ now = 0
    /\ creating = FALSE
    /\ create_now = 0
    /\ run_exc = ""
    /\ metadata = <<>>
    /\ table = <<>>
    /\ redis = EmptyDict
    /\ ret = NoCall
    /\ procs = [c \in Clients |-> Idle]
    /\ ran_before = FALSE
    /\ finished_at = <<>>
    /\ NoInstances
    /\ NoRequests

NextRedis ==
    \/ \E w \in Writers :
          \/ create_setnx(w)
          \/ create_exists(w)
          \/ create_release(w)
          \/ create_set_ts(w)
          \/ create_execute(w)
          \/ create_raise(w)
          \/ create_cleanup(w)
    \/ kill_instance_setnx
    \/ \E c \in {"ki", "kr"} : kill_keys(c) \/ kill_execute(c)

SpecRedis == InitRedis /\ [][NextRedis]_vars

\* ------------------------------------------------------------------------
\* Properties of the cached instance
\* ------------------------------------------------------------------------
\* a cached row without the id column the cache adds
StripId(row) == [c \in (DOMAIN row) \ {"_bling_id"} |-> row[c]]

EmittedRows == {emitted[i].row : i \in 1..Len(emitted)}

\* C17: when run_report, started with no live cache instance, returns, the
\* instance is finished, report_row_count is the number of rows the merge
\* emitted and report_rows returns those rows.
RunReportFillsCache ==
    [][(creating /\ ~creating') =>
          /\ Finished'
          /\ RowCountOutcome' = Returned("instance_row_count", Len(emitted'))
          /\ RowsOutcome'.exc = ""
          /\ {StripId(row) : row \in RowsOutcome'.val} = EmittedRows']_vars

\* run_report is called after a run that has ended, and calls create_instance
CreateCall == ~creating /\ pc = "done" /\ pc' = "new"

\* with one client at a time, on either engine: create_instance for an
\* instance that is live in the cache fails with InstanceExistsError, pulls no
\* row and leaves the cached rows, footer and timestamp as they were
LiveInstanceRejected ==
    [][(CreateCall /\ Finished) =>
          /\ run_exc' = "InstanceExistsError"
          /\ ~creating'
          /\ emitted' = <<>>
          /\ _row_count' = 0
          /\ <<metadata, table, redis>>' = <<metadata, table, redis>>
          /\ RowsOutcome' = RowsOutcome
          /\ FooterOutcome' = FooterOutcome]_vars

LiveInstanceRejectedWitness ==
    /\ run_exc = "InstanceExistsError"
    /\ pc = "new"
    /\ ran_before
    /\ Finished
    /\ RowCountOutcome = Returned("instance_row_count", 2)

\* C19: in every reachable state, each read accessor called for an instance
\* that is not finished raises InstanceIncompleteError and returns no data,
\* also while a create_instance for the instance is in progress.
UnfinishedNotReadable ==
    ~Finished =>
        /\ RowCountOutcome.exc = "InstanceIncompleteError"
        /\ RowsOutcome.exc = "InstanceIncompleteError"
        /\ FooterOutcome.exc = "InstanceIncompleteError"
        /\ \A o \in TimestampOutcomes : o.exc = "InstanceIncompleteError"

\* RedisCache.instance_timestamp returns the timestamp of an instance whose
\* create_instance is in progress
TimestampOfUnfinished ==
    /\ cache = "RedisCache"
    /\ creating
    /\ ~Finished
    /\ ret.op = "instance_timestamp"
    /\ ret.exc = ""

\* ------------------------------------------------------------------------
\* Properties of the Redis cache under concurrent calls
\* ------------------------------------------------------------------------
\* the writers that have taken the lock and found no instance
Writing == {w \in Writers : procs[w].pc \in {"set_ts", "rows"}}

\* C20: under every interleaving of create_instance, kill_instance_cache and
\* kill_report_cache calls on one instance of the Redis cache, at most one
\* create_instance is writing the instance at any time, and a finished
\* instance holds the rows of exactly one writer.
OneWriterAtATime ==
    /\ Cardinality(Writing) <= 1
    /\ Exists(redis, DoneKey) =>
          \E w \in Writers :
              {StripId(row) : row \in Redis_rows} = {RowsOf(w)[i] : i \in 1..Len(RowsOf(w))}

\* two create_instance calls are past the lock at once
TwoWriters == Cardinality(Writing) = 2

\* C18: create_instance for an instance that is live in the cache fails with
\* InstanceExistsError, pulls no row from the row stream and leaves the cached
\* rows, footer and timestamp as they were. On the Redis cache: a
\* create_instance that holds the lock while the instance is finished goes
\* on to raise InstanceExistsError, and its steps leave every key but the
\* lock as it was.
FinishedInstanceRejected ==
    [][\A w \in Writers :
          (procs[w].pc \in {"exists", "release"} /\ procs'[w] # procs[w]
              /\ Exists(redis, DoneKey)) =>
              /\ procs'[w].pc = "release" \/ procs'[w].exc = "InstanceExistsError"
              /\ RDel(redis', {LockKey}) = RDel(redis, {LockKey})]_vars

\* a finished instance whose timestamp key is gone, and no lock held
FinishedWithoutTimestamp ==
    /\ Exists(redis, DoneKey)
    /\ ~Exists(redis, TsKey)
    /\ ~Exists(redis, LockKey)
    /\ \A c \in Clients : procs[c].pc = "idle"

\* ------------------------------------------------------------------------
\* Properties of a repeated run
\* ------------------------------------------------------------------------
\* the totals of the rows of this run alone, folded from the reset footer
RECURSIVE FooterAfter(_, _)
FooterAfter(i, footer) ==
    IF i > Len(emitted) THEN footer
    ELSE FooterAfter(i + 1, _increment_footer(footer, emitted[i].row))

RunTotals == FooterAfter(1, [c \in ColumnNames |-> PyNone])

\* C16: run_report resets the footer totals, the row count and the two
\* finalization flags before each run, so when the rows of a run have ended,
\* be it the first run on the instance or a later one over the same source
\* data, the row count is the number of rows of this run and the footer is the
\* totals of the rows of this run alone (finalized once when create_instance
\* has called _get_footer).
RerunSameFooter ==
    pc = "done" =>
        /\ _row_count = Len(emitted)
        /\ _footer_increment_complete
        /\ IF _footer_finalized
           THEN /\ \E order \in KeyOrders : _footer = FinalizeFrom(order, 1, RunTotals)
                /\ \A c \in ColumnNames : finalized_n[c] = 1
           ELSE /\ _footer = RunTotals
                /\ \A c \in ColumnNames : finalized_n[c] = 0

RerunSameFooterWitness ==
    /\ ran_before
    /\ pc = "done"
    /\ _row_count = 2
    /\ _footer_finalized
    /\ _footer["a"] = PyInt(4)

\* the calls that have taken the lock and not yet deleted it
LockHolders ==
    {w \in Writers : procs[w].pc \in {"exists", "release", "set_ts", "rows"}}
        \cup {c \in {"ki"} : procs[c].pc \in {"keys", "execute"}}

\* C21: every create_instance call that has taken the lock deletes it before
\* it returns or raises (on success, on InstanceExistsError, when the row
\* stream or the footer callback raises), so the lock is set only while a
\* call that took it is still running, and a call is rejected with
\* InstanceLockError only then.
LockReleasedAtEnd ==
    /\ [](Exists(redis, LockKey) => LockHolders # {})
    /\ [][\A c \in Clients :
             (procs[c].pc = "idle" /\ procs'[c] # procs[c]
                 /\ procs'[c].exc = "InstanceLockError") =>
                 LockHolders \ {c} # {}]_vars

LockReleasedAtEndWitness ==
    /\ \A c \in Clients : procs[c].pc = "idle"
    /\ procs["w1"].exc = "Exception"
    /\ procs["w2"].exc = "InstanceExistsError"
    /\ ~Exists(redis, LockKey)
    /\ Exists(redis, DoneKey)

\* ------------------------------------------------------------------------
\* Properties of the expiry of a cached instance
\* ------------------------------------------------------------------------
\* cache_time has passed since the create_instance of the instance returned
TimeToLiveOver == finished_at # <<>> /\ now >= finished_at[1] + CacheTime

\* C22: a cached instance expires after its TTL: once cache_time has passed
\* since it was created, is_instance_finished returns False, the read
\* accessors raise InstanceIncompleteError and create_instance for the
\* instance succeeds again instead of raising InstanceExistsError.
ExpiresAfterCacheTime ==
    /\ [](TimeToLiveOver =>
            /\ ~Finished
            /\ RowCountOutcome.exc = "InstanceIncompleteError"
            /\ RowsOutcome.exc = "InstanceIncompleteError"
            /\ FooterOutcome.exc = "InstanceIncompleteError"
            /\ \A o \in TimestampOutcomes : o.exc = "InstanceIncompleteError")
    /\ [][(TimeToLiveOver /\ CreateCall) => (creating' /\ run_exc' = "")]_vars

\* an expired Redis instance whose timestamp was asked for
TimestampOfExpired ==
    /\ cache = "RedisCache"
    /\ TimeToLiveOver
    /\ ret.op = "instance_timestamp"
    /\ ret.exc = "KeyError"

\* ------------------------------------------------------------------------
\* The cache with the instances of several reports
\*
\* Names are sequences of characters, so that the table names and the key
\* patterns of the engines are built and matched as the code does it.
\* ------------------------------------------------------------------------
\* code names as get_code_name makes them: words joined by "_"
Reports == {<<"r">>, <<"r", "_", "s">>, <<"s">>}

\* sha1(...).hexdigest()[::2]: hex digits, every fingerprint of one length
Fingerprints == {<<"1">>, <<"2">>}

Instances == Reports \X Fingerprints

\* '%s_%s' % (report_id, instance_id)
Local_table_name(report_id, instance_id) == report_id \o <<"_">> \o instance_id

\* '%s:%s' % (report_id, instance_id)
Redis_table_name(report_id, instance_id) == report_id \o <<":">> \o instance_id

\* the keys RedisCache.create_instance writes for an instance of n rows
InstanceKeys(report_id, instance_id, n) ==
    LET table_name == Redis_table_name(report_id, instance_id)
    IN  {table_name \o <<":">>,
         table_name \o <<":", "footer", ":">>,
         table_name \o <<":", "_done", ":">>}
            \cup (IF n > 0 THEN {table_name \o <<":", "ids", ":">>} ELSE {})
            \cup {table_name \o <<":", ToString(row_id)>> : row_id \in 0..(n - 1)}
            \cup {table_name \o <<":", "index", ":", ToString(row_id), ":">> :
                    row_id \in 0..(n - 1)}

\* conn.keys(prefix + '*')
KeysLike(prefix) ==
    {k \in conn_keys : Len(prefix) <= Len(k) /\ SubSeq(k, 1, Len(prefix)) = prefix}

\* Cache.create_instance of one report instance with n rows, from the call
\* to its return
create_instance(report_id, instance_id, n) ==
    /\ IF cache = "LocalCache"
       THEN IF <<report_id, instance_id>> \in database_metadata
            THEN /\ ret' = Raised("create_instance", "InstanceExistsError")
                 /\ UNCHANGED storeVars
            ELSE /\ database_tables' =
                        database_tables \cup {Local_table_name(report_id, instance_id)}
                 /\ database_metadata' = database_metadata \cup {<<report_id, instance_id>>}
                 /\ ret' = Returned("create_instance", <<report_id, instance_id>>)
                 /\ UNCHANGED conn_keys
       ELSE IF Redis_table_name(report_id, instance_id) \o <<":">> \in conn_keys
            THEN /\ ret' = Raised("create_instance", "InstanceExistsError")
                 /\ UNCHANGED storeVars
            ELSE /\ conn_keys' = conn_keys \cup InstanceKeys(report_id, instance_id, n)
                 /\ ret' = Returned("create_instance", <<report_id, instance_id>>)
                 /\ UNCHANGED <<database_metadata, database_tables>>
    /\ UNCHANGED <<otherVars, helperVars, calls, cache, now, creating, create_now, run_exc, metadata, table,
                   redis, procs, ran_before, finished_at>>

\* LocalCache.kill_instance_cache
Local_kill_instance_cache(report_id, instance_id) ==
    /\ database_metadata' = database_metadata \ {<<report_id, instance_id>>}
    /\ database_tables' = database_tables \ {Local_table_name(report_id, instance_id)}
    /\ UNCHANGED conn_keys

\* LocalCache.kill_report_cache
Local_kill_report_cache(report_id) ==
    LET instances == {m \in database_metadata : m[1] = report_id}
    IN  /\ database_tables' =
               database_tables \ {Local_table_name(m[1], m[2]) : m \in instances}
        /\ database_metadata' = database_metadata \ instances
        /\ UNCHANGED conn_keys

\* RedisCache.kill_instance_cache; no other client holds the lock
Redis_kill_instance_cache(report_id, instance_id) ==
    /\ conn_keys' =
           conn_keys \ KeysLike(Redis_table_name(report_id, instance_id) \o <<":">>)
    /\ UNCHANGED <<database_metadata, database_tables>>

\* kill_report_cache with the pattern '%s*' in place of '%s:*'
Redis_kill_report_cache_no_colon(report_id) ==
    /\ conn_keys' = conn_keys \ KeysLike(report_id)
    /\ UNCHANGED <<database_metadata, database_tables>>

\* RedisCache.kill_report_cache
Redis_kill_report_cache(report_id) ==
    /\ conn_keys' = conn_keys \ KeysLike(report_id \o <<":">>)
    /\ UNCHANGED <<database_metadata, database_tables>>

\* Report.kill_cache of the report whose unique_id is (report_id, instance_id)
kill_cache_of(report_id, instance_id, full) ==
    /\ IF full
       THEN IF cache = "LocalCache"
            THEN Local_kill_report_cache(report_id)
            ELSE Redis_kill_report_cache(report_id)
       ELSE IF cache = "LocalCache"
            THEN Local_kill_instance_cache(report_id, instance_id)
            ELSE Redis_kill_instance_cache(report_id, instance_id)
    /\ ret' = Returned("kill_cache", <<report_id, instance_id, full>>)
    /\ UNCHANGED <<otherVars, helperVars, calls, cache, now, creating, create_now, run_exc, metadata, table,
                   redis, procs, ran_before, finished_at>>

InitInstances ==
    /\ InitNoReport /\ NoFold /\ NoUser
    /\ cache \in Caches
    /\ now = 0
    /\ creating = FALSE
    /\ create_now = 0
    /\ run_exc = ""
    /\ metadata = <<>>
    /\ table = <<>>
    /\ redis = EmptyDict
    /\ ret = NoCall
    /\ procs = <<>>
    /\ ran_before = FALSE
    /\ finished_at = <<>>
    /\ NoInstances
    /\ NoRequests

NextInstances ==
    \E i \in Instances :
        \/ \E n \in 0..MaxLen : create_instance(i[1], i[2], n)
        \/ \E full \in BOOLEAN : kill_cache_of(i[1], i[2], full)

SpecInstances == InitInstances /\ [][NextInstances]_vars

\* ------------------------------------------------------------------------
\* Properties of kill_cache
\* ------------------------------------------------------------------------
\* what the cache holds of one instance
Stored(i) ==
    IF cache = "LocalCache"
    THEN <<i \in database_metadata, Local_table_name(i[1], i[2]) \in database_tables>>
    ELSE <<conn_keys \cap InstanceKeys(i[1], i[2], MaxLen)>>

Nothing == IF cache = "LocalCache" THEN <<FALSE, FALSE>> ELSE <<{}>>

\* the instances the last kill_cache call was to remove
Killed ==
    {i \in Instances : IF ret.val[3] THEN i[1] = ret.val[1]
                       ELSE i = <<ret.val[1], ret.val[2]>>}

ReportNames == {"", "nonexistent", code_name}

Params == {kw \in Kwargs : DOMAIN kw \subseteq {form_name("s")}}

Requests == [report : ReportNames, metadata : BOOLEAN, kwargs : Params, runner : BOOLEAN]

\* Report.__init__: clean_user_inputs() with no inputs on empty snapshots
FreshReport ==
    LET st == CleanFrom(EmptyDict, 1, [dirty |-> EmptyDict, clean |-> EmptyDict,
                                       errors |-> <<>>])
    IN  IF st.errors # <<>>
        THEN [dirty |-> EmptyDict, clean |-> EmptyDict, errors |-> st.errors]
        ELSE st

\* report.clean_user_inputs(**params) on the report just constructed
Cleaned(kwargs) ==
    LET st == CleanFrom(kwargs, 1, [dirty |-> FreshReport.dirty, clean |-> EmptyDict,
                                    errors |-> <<>>])
    IN  IF st.errors # <<>>
        THEN [dirty |-> FreshReport.dirty, clean |-> EmptyDict, errors |-> st.errors]
        ELSE st

\* report.unique_id after clean_user_inputs(**kwargs)
UniqueIdOf(kwargs) ==
    <<(<<code_name>>), user_input_hash(user_input_string(Cleaned(kwargs).dirty))>>

LockOf(i) == Redis_table_name(i[1], i[2]) \o <<":", "_lock", ":">>
TimestampOf(i) == Redis_table_name(i[1], i[2]) \o <<":">>
DoneOf(i) == Redis_table_name(i[1], i[2]) \o <<":", "_done", ":">>

\* report.is_report_finished()
is_report_finished(i) ==
    IF cache = "LocalCache" THEN i \in database_metadata ELSE DoneOf(i) \in conn_keys

\* RedisCache.is_instance_started
Redis_is_instance_started(i) == TimestampOf(i) \in conn_keys

\* what report.run_report() inside report_response raises
RunReportRaises(i) ==
    IF cache = "LocalCache" THEN ""
    ELSE IF LockOf(i) \in conn_keys THEN "InstanceLockError"
    ELSE IF TimestampOf(i) \in conn_keys THEN "InstanceExistsError"
    ELSE ""

DataKeys ==
    {"errors", "poll", "iTotalRecords", "iTotalDisplayRecords", "sEcho", "aaData", "footer"}

\* the outcome of report_response: the exception or the JSON object, the
\* calls it made, and the cache and the task queue it leaves
Outcome(exc, keys, errors, poll, runner_calls, run_report_calls) ==
    [exc |-> exc, keys |-> keys, errors |-> errors, poll |-> poll,
     runner_calls |-> runner_calls, run_report_calls |-> run_report_calls]

\* the runner branch calling the runner whether or not the instance is started
AskRunner_again(req, i) ==
    IF cache = "LocalCache"
    THEN Outcome("NotImplementedError", {}, <<>>, "", <<>>, 0)
    ELSE Outcome("", {"errors", "poll"}, <<>>, "True", <<(<<req.report, req.kwargs>>)>>, 0)

\* the branch of report_response for an unfinished instance and a runner
AskRunner(req, i) ==
    IF cache = "LocalCache"
    THEN Outcome("NotImplementedError", {}, <<>>, "", <<>>, 0)
    ELSE IF Redis_is_instance_started(i)
    THEN Outcome("", {"errors", "poll"}, <<>>, "True", <<>>, 0)
    ELSE Outcome("", {"errors", "poll"}, <<>>, "True", <<(<<req.report, req.kwargs>>)>>, 0)

ResponseTo(req) ==
    LET i == UniqueIdOf(req.kwargs)
    IN  IF req.report = ""
        THEN Outcome("", {"errors"}, <<"Report code name not specified.">>, "", <<>>, 0)
        ELSE IF req.report # code_name
        THEN Outcome("", {"errors"}, <<"Specified report not found.">>, "", <<>>, 0)
        ELSE IF req.metadata
        THEN Outcome("", {"errors", "widgets", "header", "default_sort"}, <<>>, "", <<>>, 0)
        ELSE IF Cleaned(req.kwargs).errors # <<>>
        THEN Outcome("", {"errors"}, Cleaned(req.kwargs).errors, "", <<>>, 0)
        ELSE IF is_report_finished(i)
        THEN Outcome("", DataKeys, <<>>, "False", <<>>, 0)
        ELSE IF req.runner
        THEN AskRunner(req, i)
        ELSE IF RunReportRaises(i) # ""
        THEN Outcome(RunReportRaises(i), {}, <<>>, "", <<>>, 1)
        ELSE Outcome("", DataKeys, <<>>, "False", <<>>, 1)

\* helpers.report_response that runs the report although the inputs failed
report_response_runs_anyway(req) ==
    LET out == ResponseTo(req)
        i == UniqueIdOf(req.kwargs)
        constructed == req.report = code_name
        cleaned == constructed /\ ~req.metadata
        ran == cleaned /\ ~is_report_finished(i) /\ RunReportRaises(i) = ""
    IN  /\ response' = [seq |-> 1 - response.seq, request |-> req] @@ out
        /\ IF cleaned
           THEN /\ dirty_inputs' = Cleaned(req.kwargs).dirty
                /\ clean_inputs' = Cleaned(req.kwargs).clean
                /\ user_input_errors' = Cleaned(req.kwargs).errors
           ELSE IF constructed
           THEN /\ dirty_inputs' = FreshReport.dirty
                /\ clean_inputs' = FreshReport.clean
                /\ user_input_errors' = FreshReport.errors
           ELSE UNCHANGED <<dirty_inputs, clean_inputs, user_input_errors>>
        /\ tasks' = tasks \cup {c[2] : c \in {out.runner_calls[n] : n \in DOMAIN out.runner_calls}}
        /\ IF ran /\ cache = "LocalCache"
           THEN /\ database_tables' = database_tables \cup {Local_table_name(i[1], i[2])}
                /\ database_metadata' = database_metadata \cup {i}
                /\ UNCHANGED conn_keys
           ELSE IF ran
           THEN /\ conn_keys' = conn_keys \cup InstanceKeys(i[1], i[2], MaxLen)
                /\ UNCHANGED <<database_metadata, database_tables>>
           ELSE UNCHANGED storeVars
        /\ UNCHANGED <<inputVars, genVars, footerVars, foldVars, _unique_id_override, calls, cache,
                       now, creating, create_now, run_exc, metadata, table, redis, ret,
                       procs, ran_before, finished_at>>

\* helpers.report_response(params, runner, cache)
report_response(req) ==
    LET out == ResponseTo(req)
        i == UniqueIdOf(req.kwargs)
        constructed == req.report = code_name
        cleaned == constructed /\ ~req.metadata
        ran == out.run_report_calls = 1 /\ out.exc = ""
    IN  /\ response' = [seq |-> 1 - response.seq, request |-> req] @@ out
        /\ IF cleaned
           THEN /\ dirty_inputs' = Cleaned(req.kwargs).dirty
                /\ clean_inputs' = Cleaned(req.kwargs).clean
                /\ user_input_errors' = Cleaned(req.kwargs).errors
           ELSE IF constructed
           THEN /\ dirty_inputs' = FreshReport.dirty
                /\ clean_inputs' = FreshReport.clean
                /\ user_input_errors' = FreshReport.errors
           ELSE UNCHANGED <<dirty_inputs, clean_inputs, user_input_errors>>
        /\ tasks' = tasks \cup {c[2] : c \in {out.runner_calls[n] : n \in DOMAIN out.runner_calls}}
        /\ IF ran /\ cache = "LocalCache"
           THEN /\ database_tables' = database_tables \cup {Local_table_name(i[1], i[2])}
                /\ database_metadata' = database_metadata \cup {i}
                /\ UNCHANGED conn_keys
           ELSE IF ran
           THEN /\ conn_keys' = conn_keys \cup InstanceKeys(i[1], i[2], MaxLen)
                /\ UNCHANGED <<database_metadata, database_tables>>
           ELSE UNCHANGED storeVars
        /\ UNCHANGED <<inputVars, genVars, footerVars, foldVars, _unique_id_override, calls, cache,
                       now, creating, create_now, run_exc, metadata, table, redis, ret,
                       procs, ran_before, finished_at>>

\* the worker takes up a task: run_report as far as the lock and the
\* timestamp of RedisCache.create_instance, or its refusal
worker_start(kwargs) ==
    LET i == UniqueIdOf(kwargs)
    IN  /\ kwargs \in tasks
        /\ tasks' = tasks \ {kwargs}
        /\ conn_keys' = IF LockOf(i) \in conn_keys \/ TimestampOf(i) \in conn_keys
                        THEN conn_keys
                        ELSE conn_keys \cup {LockOf(i), TimestampOf(i)}
        /\ UNCHANGED <<otherVars, database_metadata, database_tables, response, calls, cache, now,
                       creating, create_now, run_exc, metadata, table, redis, ret, procs,
                       ran_before, finished_at>>

\* the worker's create_instance executes its pipeline and returns
worker_finish(kwargs) ==
    LET i == UniqueIdOf(kwargs)
    IN  /\ LockOf(i) \in conn_keys
        /\ conn_keys' = (conn_keys \cup InstanceKeys(i[1], i[2], MaxLen)) \ {LockOf(i)}
        /\ UNCHANGED <<otherVars, database_metadata, database_tables, helperVars, calls, cache, now,
                       creating, create_now, run_exc, metadata, table, redis, ret, procs,
                       ran_before, finished_at>>

InitResponse ==
    /\ InitNoReport /\ NoFold /\ InitUser
    /\ cache \in Caches
    /\ now = 0
    /\ creating = FALSE
    /\ create_now = 0
    /\ run_exc = ""
    /\ metadata = <<>>
    /\ table = <<>>
    /\ redis = EmptyDict
    /\ ret = NoCall
    /\ procs = <<>>
    /\ ran_before = FALSE
    /\ finished_at = <<>>
    /\ NoInstances
    /\ NoRequests

NextResponse ==
    \/ \E req \in Requests : report_response(req)
    \/ \E kwargs \in Params : worker_start(kwargs)
    \/ \E kwargs \in Params : worker_finish(kwargs)

SpecResponse == InitResponse /\ [][NextResponse]_vars

\* ------------------------------------------------------------------------
\* Properties of report_response
\* ------------------------------------------------------------------------
\* a step that is a call of report_response
ResponseCall == response'.seq # response.seq

\* the request of the call got as far as validating its inputs
Validated(req) == req.report = code_name /\ ~req.metadata

\* C24: when validating the user inputs of the request yields errors,
\* report_response returns only the list of errors: neither the runner nor
\* run_report is invoked and nothing is written to the cache.
ErrorsOnly ==
    [][(ResponseCall /\ Validated(response'.request)
            /\ Cleaned(response'.request.kwargs).errors # <<>>) =>
          /\ response'.exc = ""
          /\ response'.keys = {"errors"}
          /\ response'.errors = Cleaned(response'.request.kwargs).errors
          /\ response'.runner_calls = <<>>
          /\ response'.run_report_calls = 0
          /\ UNCHANGED <<storeVars, tasks>>]_vars

\* a request without a runner whose input for s is not a choice was
\* answered with the error
ErrorsOnlyWitness ==
    /\ response.seq = 1
    /\ response.request.report = code_name
    /\ ~response.request.metadata
    /\ ~response.request.runner
    /\ response.request.kwargs = (form_name("s") :> "bad")
    /\ response.errors = <<"Please choose a valid option.">>
    /\ cache = "LocalCache"
    /\ database_metadata = {}

\* the request of the call passed validation and came with a runner
RunnerCall ==
    /\ ResponseCall
    /\ Validated(response'.request)
    /\ Cleaned(response'.request.kwargs).errors = <<>>
    /\ response'.request.runner

\* the runner was called once, with the code name and the remaining
\* parameters, if the instance was not started, and not at all if it was
RunnerOnceIfNotStarted ==
    response'.runner_calls =
        IF Redis_is_instance_started(UniqueIdOf(response'.request.kwargs))
        THEN <<>>
        ELSE <<(<<response'.request.report, response'.request.kwargs>>)>>

\* C25 as stated: with a runner and an unfinished instance report_response
\* never runs the report in-process and returns poll=true, invoking the
\* runner exactly once if the instance is not started and not at all if it
\* is; it returns data with poll=false only when the instance is finished.
RunnerPolls ==
    [][RunnerCall =>
          /\ response'.run_report_calls = 0
          /\ ~is_report_finished(UniqueIdOf(response'.request.kwargs)) =>
                /\ response'.exc = ""
                /\ response'.poll = "True"
                /\ RunnerOnceIfNotStarted
          /\ response'.poll = "False" =>
                is_report_finished(UniqueIdOf(response'.request.kwargs))]_vars

\* C25: as RunnerPolls with a RedisCache; with a LocalCache and an
\* unfinished instance report_response raises NotImplementedError, before
\* the runner is called and without running the report.
RunnerPollsRedis ==
    [][RunnerCall =>
          /\ response'.run_report_calls = 0
          /\ ~is_report_finished(UniqueIdOf(response'.request.kwargs)) =>
                IF cache = "RedisCache"
                THEN /\ response'.exc = ""
                     /\ response'.poll = "True"
                     /\ RunnerOnceIfNotStarted
                ELSE /\ response'.exc = "NotImplementedError"
                     /\ response'.runner_calls = <<>>
                     /\ UNCHANGED <<storeVars, tasks>>
          /\ response'.poll = "False" =>
                is_report_finished(UniqueIdOf(response'.request.kwargs))]_vars

\* a poll of an instance the worker has started and not finished: no call
\* of the runner, and the task of the first request was taken up
RunnerPollsRedisWitness ==
    /\ cache = "RedisCache"
    /\ response.request # <<>>
    /\ response.request.runner
    /\ response.poll = "True"
    /\ response.runner_calls = <<>>
    /\ tasks = {}
    /\ LockOf(UniqueIdOf(response.request.kwargs)) \in conn_keys

\* ------------------------------------------------------------------------
\* sources/merge.py: the merge columns
\* ------------------------------------------------------------------------
PyBool(b) == [t |-> "bool", v |-> IF b THEN 1 ELSE 0]

\* bool(x) of None, a bool or a number
bool(x) == x.t # "none" /\ x.v # 0

\* First.merge
First_merge(current, new) == IF current = PyNone THEN new ELSE current

\* Sum.merge adding the operands without regard to None
Sum_merge_adds_always(current, new) ==
    IF current = TypeError \/ new = TypeError THEN TypeError
    ELSE IF current = PyNone /\ new = PyNone THEN PyNone
    ELSE IF current = PyNone \/ new = PyNone THEN TypeError
    ELSE PyAdd(current, new)

\* Sum.merge; an operand that is the outcome of a raised TypeError is the
\* exception passing through
Sum_merge(current, new) ==
    IF current = TypeError \/ new = TypeError THEN TypeError
    ELSE IF current = PyNone /\ new = PyNone THEN PyNone
    ELSE IF current = PyNone THEN new
    ELSE IF new = PyNone THEN current
    ELSE PyAdd(current, new)

\* BoolAnd.merge
BoolAnd_merge(current, new) ==
    PyBool((IF current # PyNone THEN bool(current) ELSE TRUE)
            /\ (IF new # PyNone THEN bool(new) ELSE TRUE))

\* BoolOr.merge
BoolOr_merge(current, new) ==
    PyBool((IF current # PyNone THEN bool(current) ELSE FALSE)
            \/ (IF new # PyNone THEN bool(new) ELSE FALSE))

\* the merge report: its merge columns, the class of each and the
\* sub-report column each names (_merge_all; "" when it names none)
MergeColumns == <<"user_id", "user_is_active", "double_num_widgets", "all_active", "any_active">>

MergeColumnNames == {MergeColumns[i] : i \in 1..Len(MergeColumns)}

MergeClass(c) ==
    CASE c = "double_num_widgets" -> "Sum"
      [] c = "all_active" -> "BoolAnd"
      [] c = "any_active" -> "BoolOr"
      [] OTHER -> "First"

_merge_all(c) ==
    CASE c = "double_num_widgets" -> "num_widgets"
      [] c \in {"all_active", "any_active"} -> "user_is_active"
      [] OTHER -> ""

merge(c, current, new) ==
    CASE MergeClass(c) = "Sum" -> Sum_merge(current, new)
      [] MergeClass(c) = "BoolAnd" -> BoolAnd_merge(current, new)
      [] MergeClass(c) = "BoolOr" -> BoolOr_merge(current, new)
      [] OTHER -> First_merge(current, new)

\* dict.get(name): None for a missing name
DictGet(d, name) == IF name \in DOMAIN d THEN d[name] ELSE PyNone

\* MergeColumn._merge_report_column for a column without dotted arguments
_merge_report_column(c, current, new) ==
    IF _merge_all(c) = ""
    THEN merge(c, DictGet(current, c), DictGet(new, c))
    ELSE IF _merge_all(c) \in DOMAIN new
    THEN merge(c, DictGet(current, c), DictGet(new, _merge_all(c)))
    ELSE DictGet(current, c)

\* ------------------------------------------------------------------------
\* sources/merge.py: MergeSource.get_rows
\*
\* The merge report has the sub-reports one and two, a ReportFilter on one
\* with the Checkbox include and the PostFilter double_num_widgets > 0. In
\* this specification data[name] are the rows of sub-report name, sorted by
\* key as its cached instance returns them, _sources is the order in which
\* self._reports.items() lists the sub-reports, and pc, pos, current_key,
\* current_row and emitted are those of the generator of get_rows.
\* ------------------------------------------------------------------------
MergedReports == {"one", "two"}

\* Python's order of the report names
ReportNameRank(name) == IF name = "one" THEN 1 ELSE 2

\* a row of a sub-report
SubRow(k, active, num) ==
    ("user_id" :> PyInt(k)) @@ ("user_is_active" :> active) @@ ("num_widgets" :> num)

\* the rows a sub-report can have for key k
SubRowsOf(k) ==
    {SubRow(k, PyBool(TRUE), PyInt(2)), SubRow(k, PyBool(FALSE), PyInt(-2)),
     SubRow(k, PyNone, PyNone), SubRow(k, PyBool(FALSE), PyInt(2))}

\* the row lists of a sub-report: at most one row for a key, in key order
SubReports ==
    UNION {{rows \in [1..n -> UNION {SubRowsOf(k) : k \in Keys}] :
                \A i \in 1..(n - 1) : rows[i]["user_id"].v < rows[i + 1]["user_id"].v} :
            n \in 0..MaxKey}

\* Format.format_raw: the cell as it is
format_raw(cell) == cell

\* the unique_id get_rows gives sub-report name: the merge report's code
\* name and '%s::%s' % (instance_id, name)
SubUniqueId(name) == <<(<<"m">>), <<"h", ":", ":", name>>>>

\* sub-report name is finished in the cache
SubFinished(name) == is_report_finished(SubUniqueId(name))

\* what run_report of sub-report name raises: sqlite refuses a table name
\* with a colon in it
SubRunRaises(name) ==
    LET table_name == Local_table_name(SubUniqueId(name)[1], SubUniqueId(name)[2])
    IN  IF cache = "LocalCache" /\ \E n \in DOMAIN table_name : table_name[n] = ":"
        THEN "OperationalError"
        ELSE ""

\* ReportFilter.excluded_reports of the filter on sub-report one
excluded_reports == IF clean_inputs["include"] THEN {} ELSE {"one"}

\* a get_rows that merges every sub-report, excluded or not
reports_all == _sources

\* reports: the sub-reports not excluded, in the order of self._reports
reports == SelectSeq(_sources, LAMBDA name : name \notin excluded_reports)

\* _report_rows_mapper: the (key, report name, row) items of a sub-report
_report_rows_mapper(name) ==
    [n \in DOMAIN data[name] |->
        [key |-> data[name][n]["user_id"].v, report |-> name,
         row |-> [col \in DOMAIN data[name][n] |-> format_raw(data[name][n][col])]]]

\* the sub-reports heapq.merge has not exhausted, and the one it yields
\* from next: the smallest (key, report name)
MergeLive == {name \in DOMAIN pos : pos[name] < Len(data[name])}

MergeHead(name) == _report_rows_mapper(name)[pos[name] + 1]

\* a merge that breaks the tie of a key by the place of the sub-report in
\* self._reports
MergeMin_by_position ==
    LET place(name) == CHOOSE n \in DOMAIN _sources : _sources[n] = name
    IN  CHOOSE name \in MergeLive : \A other \in MergeLive \ {name} :
            \/ MergeHead(name).key < MergeHead(other).key
            \/ /\ MergeHead(name).key = MergeHead(other).key
               /\ place(name) < place(other)

MergeMin ==
    CHOOSE name \in MergeLive : \A other \in MergeLive \ {name} :
        \/ MergeHead(name).key < MergeHead(other).key
        \/ /\ MergeHead(name).key = MergeHead(other).key
           /\ ReportNameRank(name) < ReportNameRank(other)

Merge_empty_row == [c \in MergeColumnNames |-> PyNone]

\* current_row[name] = column._merge_report_column(...) for every column
MergeInto(current, new) ==
    [c \in MergeColumnNames |-> _merge_report_column(c, current, new)]

\* the PostFilter of the report: row['double_num_widgets'] > 0
filter_func(row) == PyCmp(row["double_num_widgets"], PyInt(0)) > 0

\* _passes_post_filters of the row a key has so far, with the call recorded
PostFiltered(key, row) ==
    /\ calls' = Append(calls, <<"include_row", key, row>>)
    /\ emitted' = IF filter_func(row)
                  THEN Append(emitted, [key |-> key, row |-> row])
                  ELSE emitted

\* the sub-reports the loop over reports has dealt with
Checked == {calls[n][2] : n \in {m \in DOMAIN calls : calls[m][1] = "checked"}}

mergeFrame ==
    <<key_range, footer_opt, pending, parts, footerVars, foldVars, dirty_inputs,
      user_input_errors, _unique_id_override, helperVars, cache, now, creating, create_now,
      metadata, table, redis, ret, procs, ran_before, finished_at>>

\* get_rows that runs every sub-report before it reads, finished or not
RunSubReport_always ==
    /\ pc = "new"
    /\ \E n \in 1..Len(reports) :
          /\ \A m \in 1..(n - 1) : reports[m] \in Checked
          /\ reports[n] \notin Checked
          /\ IF SubRunRaises(reports[n]) # ""
             THEN /\ calls' = calls \o <<(<<"checked", reports[n]>>),
                                          (<<"run_report", reports[n]>>)>>
                  /\ run_exc' = SubRunRaises(reports[n])
                  /\ pc' = "raised"
                  /\ UNCHANGED storeVars
             ELSE /\ calls' = calls \o <<(<<"checked", reports[n]>>),
                                          (<<"run_report", reports[n]>>)>>
                  /\ conn_keys' = conn_keys \cup
                        InstanceKeys(SubUniqueId(reports[n])[1], SubUniqueId(reports[n])[2],
                                     Len(data[reports[n]]))
                  /\ UNCHANGED <<database_metadata, database_tables, run_exc, pc>>
    /\ UNCHANGED <<data, _sources, clean_inputs, pos, current_key, current_row, emitted,
                   mergeFrame>>

\* one turn of the loop "for name, report in reports: if not
\* report.is_report_finished(): report.run_report()"
RunSubReport ==
    /\ pc = "new"
    /\ \E n \in 1..Len(reports) :
          /\ \A m \in 1..(n - 1) : reports[m] \in Checked
          /\ reports[n] \notin Checked
          /\ IF SubFinished(reports[n])
             THEN /\ calls' = Append(calls, <<"checked", reports[n]>>)
                  /\ UNCHANGED <<storeVars, run_exc, pc>>
             ELSE IF SubRunRaises(reports[n]) # ""
             THEN /\ calls' = calls \o <<(<<"checked", reports[n]>>),
                                          (<<"run_report", reports[n]>>)>>
                  /\ run_exc' = SubRunRaises(reports[n])
                  /\ pc' = "raised"
                  /\ UNCHANGED storeVars
             ELSE /\ calls' = calls \o <<(<<"checked", reports[n]>>),
                                          (<<"run_report", reports[n]>>)>>
                  /\ conn_keys' = conn_keys \cup
                        InstanceKeys(SubUniqueId(reports[n])[1], SubUniqueId(reports[n])[2],
                                     Len(data[reports[n]]))
                  /\ UNCHANGED <<database_metadata, database_tables, run_exc, pc>>
    /\ UNCHANGED <<data, _sources, clean_inputs, pos, current_key, current_row, emitted,
                   mergeFrame>>

\* heapq.merge starts: it takes the first item of every mapper, and each
\* mapper calls report_rows of its sub-report
StartMerge ==
    /\ pc = "new"
    /\ \A n \in 1..Len(reports) : reports[n] \in Checked
    /\ calls' = calls \o [n \in 1..Len(reports) |-> <<"report_rows", reports[n]>>]
    /\ pos' = [name \in {reports[n] : n \in 1..Len(reports)} |-> 0]
    /\ pc' = "merge"
    /\ UNCHANGED <<data, _sources, clean_inputs, current_key, current_row, emitted, run_exc,
                   storeVars, mergeFrame>>

\* the loop body emitting the current row at every item, merged or not
MergeItem_emits_early ==
    /\ pc = "merge"
    /\ MergeLive # {}
    /\ LET item == MergeHead(MergeMin)
       IN  /\ pos' = [pos EXCEPT ![MergeMin] = @ + 1]
           /\ IF current_key # NoKey /\ current_key = item.key
              THEN /\ current_row' = MergeInto(current_row, item.row)
                   /\ PostFiltered(current_key, current_row)
                   /\ UNCHANGED current_key
              ELSE /\ IF current_key # NoKey
                      THEN PostFiltered(current_key, current_row)
                      ELSE UNCHANGED <<calls, emitted>>
                   /\ current_key' = item.key
                   /\ current_row' = MergeInto(Merge_empty_row, item.row)
    /\ UNCHANGED <<data, _sources, clean_inputs, pc, run_exc, storeVars, mergeFrame>>

\* one turn of the loop over heapq.merge(*report_rows)
MergeItem ==
    /\ pc = "merge"
    /\ MergeLive # {}
    /\ LET item == MergeHead(MergeMin)
       IN  /\ pos' = [pos EXCEPT ![MergeMin] = @ + 1]
           /\ IF current_key # NoKey /\ current_key = item.key
              THEN /\ current_row' = MergeInto(current_row, item.row)
                   /\ UNCHANGED <<current_key, calls, emitted>>
              ELSE /\ IF current_key # NoKey
                      THEN PostFiltered(current_key, current_row)
                      ELSE UNCHANGED <<calls, emitted>>
                   /\ current_key' = item.key
                   /\ current_row' = MergeInto(Merge_empty_row, item.row)
    /\ UNCHANGED <<data, _sources, clean_inputs, pc, run_exc, storeVars, mergeFrame>>

\* heapq.merge is exhausted: the final row, if any, and the end
MergeEnd ==
    /\ pc = "merge"
    /\ MergeLive = {}
    /\ IF current_key # NoKey
       THEN PostFiltered(current_key, current_row)
       ELSE UNCHANGED <<calls, emitted>>
    /\ pc' = "done"
    /\ UNCHANGED <<data, _sources, clean_inputs, pos, current_key, current_row, run_exc,
                   storeVars, mergeFrame>>

\* the instances of the sub-reports in a RedisCache
SubKeys(name) ==
    InstanceKeys(SubUniqueId(name)[1], SubUniqueId(name)[2], Len(data[name]))

InitMergeSource ==
    /\ key_range = <<>>
    /\ footer_opt = [c \in ColumnNames |-> c # KeyName]
    /\ data \in [MergedReports -> SubReports]
    /\ _sources \in {<<"one", "two">>, <<"two", "one">>}
    /\ pc = "new"
    /\ pos = <<>>
    /\ current_key = NoKey
    /\ current_row = PyNone
    /\ pending = NoItem
    /\ parts = <<>>
    /\ emitted = <<>>
    /\ _footer = [c \in ColumnNames |-> PyNone]
    /\ _row_count = 0
    /\ _footer_finalized = FALSE
    /\ _footer_increment_complete = FALSE
    /\ footer_ret = [exc |-> "", val |-> PyNone]
    /\ finalized_n = [c \in ColumnNames |-> 0]
    /\ NoFold
    /\ dirty_inputs = EmptyDict
    /\ clean_inputs \in [{"include"} -> BOOLEAN]
    /\ user_input_errors = <<>>
    /\ _unique_id_override = NoOverride
    /\ cache \in Caches
    /\ now = 0
    /\ creating = FALSE
    /\ create_now = 0
    /\ run_exc = ""
    /\ metadata = <<>>
    /\ table = <<>>
    /\ redis = EmptyDict
    /\ ret = NoCall
    /\ procs = <<>>
    /\ ran_before = FALSE
    /\ finished_at = <<>>
    /\ database_metadata = {}
    /\ database_tables = {}
    /\ \E done \in SUBSET MergedReports :
          conn_keys = IF cache = "RedisCache" THEN UNION {SubKeys(name) : name \in done}
                      ELSE {}
    /\ NoRequests

NextMergeSource == RunSubReport \/ StartMerge \/ MergeItem \/ MergeEnd

SpecMergeSource == InitMergeSource /\ [][NextMergeSource]_vars

\* ------------------------------------------------------------------------
\* Properties of MergeSource.get_rows
\* ------------------------------------------------------------------------
\* the sub-report column a merge column reads
MergedFrom(c) == IF _merge_all(c) = "" THEN c ELSE _merge_all(c)

\* the rows sub-report name has for key k (none or one)
RowsWithKey(name, k) ==
    {data[name][n] : n \in {m \in DOMAIN data[name] : data[name][m]["user_id"].v = k}}

\* the reducer of column c folded from acc over the rows with key k of the
\* sub-reports of names, in the order of the report names
RECURSIVE FoldReports(_, _, _, _)
FoldReports(c, names, k, acc) ==
    IF names = {} THEN acc
    ELSE LET name == CHOOSE x \in names : \A y \in names : ReportNameRank(x) <= ReportNameRank(y)
             acc2 == IF RowsWithKey(name, k) = {} THEN acc
                     ELSE merge(c, acc, (CHOOSE r \in RowsWithKey(name, k) : TRUE)[MergedFrom(c)])
         IN  FoldReports(c, names \ {name}, k, acc2)

\* the merged row of key k over the sub-reports of names
MergedRow(names, k) == [c \in MergeColumnNames |-> FoldReports(c, names, k, PyNone)]

\* the keys the sub-reports of names have
KeysOf(names) == {k \in Keys : \E name \in names : RowsWithKey(name, k) # {}}

\* the rows get_rows is to yield from the sub-reports of names: one per key
\* whose merged row passes the PostFilter, in key order
RECURSIVE RowsFrom(_, _)
RowsFrom(names, ks) ==
    IF ks = {} THEN <<>>
    ELSE LET k == CHOOSE x \in ks : \A y \in ks : x <= y
         IN  (IF filter_func(MergedRow(names, k))
              THEN <<[key |-> k, row |-> MergedRow(names, k)]>>
              ELSE <<>>) \o RowsFrom(names, ks \ {k})

Included == MergedReports \ excluded_reports

Ended == pc \in {"done", "raised"}

\* C26: for each key get_rows emits one row whose value in each merge
\* column is the column's reducer folded, from None, over the rows of all
\* non-excluded sub-reports that have the key; two identical sub-reports
\* with num_widgets = 2 for user 1 give double_num_widgets = 4.
MergedRowsEmitted == Ended => emitted = RowsFrom(Included, KeysOf(Included))

\* the test of test_merge.py in a RedisCache: both sub-reports included,
\* each with num_widgets = 2 for user 1, and the merged row has 4
SumOfTwo ==
    /\ pc = "done"
    /\ cache = "RedisCache"
    /\ clean_inputs["include"]
    /\ \A name \in MergedReports : data[name] = <<SubRow(1, PyBool(TRUE), PyInt(2))>>
    /\ Len(emitted) = 1
    /\ emitted[1].row["double_num_widgets"] = PyInt(4)

\* the merge report ran on a LocalCache: two sub-reports with rows, and no
\* merged row at the end
NothingMerged ==
    /\ cache = "LocalCache"
    /\ pc = "raised"
    /\ clean_inputs["include"]
    /\ \A name \in MergedReports : data[name] = <<SubRow(1, PyBool(TRUE), PyInt(2))>>
    /\ emitted = <<>>

\* C28: a sub-report named by a ReportFilter whose input is falsy is
\* excluded: get_rows does not run it, and the merged rows are those of the
\* remaining sub-reports only.
ExcludedNotMerged ==
    /\ \A n \in DOMAIN calls :
          calls[n][1] \in {"checked", "run_report", "report_rows"} =>
              calls[n][2] \notin excluded_reports
    /\ \A n \in DOMAIN emitted :
          emitted[n].row = MergedRow(Included, emitted[n].key)
    /\ pc = "done" => emitted = RowsFrom(Included, KeysOf(Included))

\* one of two identical sub-reports excluded: the Sum is 2 instead of 4
ExcludedNotMergedWitness ==
    /\ pc = "done"
    /\ ~clean_inputs["include"]
    /\ \A name \in MergedReports : data[name] = <<SubRow(1, PyBool(TRUE), PyInt(2))>>
    /\ Len(emitted) = 1
    /\ emitted[1].row["double_num_widgets"] = PyInt(2)
    /\ DoneOf(SubUniqueId("one")) \notin conn_keys

\* the calls of one kind get_rows has made, as the set of their sub-reports
Called(kind) == {calls[n][2] : n \in {m \in DOMAIN calls : calls[m][1] = kind}}

\* C29: every non-excluded sub-report is finished in the cache before the
\* first row of any sub-report is read: one that is not finished is run to
\* completion synchronously, one that is finished is not run again, and no
\* merged row is emitted before all these runs have ended.
SubReportsFinishedFirst ==
    /\ [](/\ \A name \in Called("run_report") : SubFinished(name)
          /\ Called("report_rows") # {} => \A name \in Included : SubFinished(name)
          /\ emitted # <<>> => Included \subseteq Called("checked"))
    /\ [][\A name \in MergedReports :
            (name \in Called("run_report")' /\ name \notin Called("run_report")) =>
                ~SubFinished(name)]_vars

\* run_report of a sub-report was called on a LocalCache and raised
SubReportRunRaised ==
    /\ cache = "LocalCache"
    /\ pc = "raised"
    /\ run_exc = "OperationalError"
    /\ Called("run_report") # {}
    /\ emitted = <<>>

MergeClasses == {"First", "Sum", "BoolAnd", "BoolOr"}

MergeCells ==
    {PyNone, PyBool(TRUE), PyBool(FALSE), PyInt(0), PyInt(2), PyLong(2), PyDec(2), PyFloat(2)}

\* column.merge(current, new) of a column of class cls
merge_of(cls, current, new) ==
    CASE cls = "First" -> First_merge(current, new)
      [] cls = "Sum" -> Sum_merge(current, new)
      [] cls = "BoolAnd" -> BoolAnd_merge(current, new)
      [] cls = "BoolOr" -> BoolOr_merge(current, new)

InitReducers ==
    /\ InitNoReport
    /\ fold_footer \in MergeClasses
    /\ fold_cells \in SeqsUpTo(MergeCells, MaxCells)
    /\ fold_i = 0
    /\ fold_total = PyNone
    /\ NoUser
    /\ NoCache

\* current = column.merge(current, new) for the next cell; a call that
\* raises ends the fold
MergeStep ==
    /\ fold_i < Len(fold_cells)
    /\ fold_total # TypeError
    /\ fold_total' = merge_of(fold_footer, fold_total, fold_cells[fold_i + 1])
    /\ fold_i' = fold_i + 1
    /\ UNCHANGED <<fold_footer, fold_cells, inputVars, genVars, footerVars, userVars,
                   cacheVars>>

NextReducers == MergeStep

SpecReducers == InitReducers /\ [][NextReducers]_vars

\* the cells merged so far
Merged == SubSeq(fold_cells, 1, fold_i)

\* Sum.merge, but for what it returns for two numbers: None handling,
\* commutativity and associativity, an exception counting as an outcome
SumNoneLaws ==
    fold_footer = "Sum" =>
        /\ fold_i = 1 => fold_total = Merged[1]
        /\ fold_i = 2 =>
              /\ Merged[1] = PyNone => fold_total = Merged[2]
              /\ Merged[2] = PyNone => fold_total = Merged[1]
              /\ fold_total = Sum_merge(Merged[2], Merged[1])
        /\ fold_i = 3 => fold_total = Sum_merge(Merged[1], Sum_merge(Merged[2], Merged[3]))

\* Sum.merge of two numbers is their arithmetic sum
SumOfNumbers ==
    (fold_footer = "Sum" /\ fold_i = 2 /\ PyNone \notin {Merged[1], Merged[2]}) =>
        /\ fold_total.t \in ADD_TYPES
        /\ fold_total.v = Merged[1].v + Merged[2].v

BoolLaws ==
    /\ (fold_footer = "BoolAnd" /\ fold_i >= 1) =>
          fold_total = PyBool(\A n \in 1..fold_i : Merged[n] = PyNone \/ bool(Merged[n]))
    /\ (fold_footer = "BoolOr" /\ fold_i >= 1) =>
          fold_total = PyBool(\E n \in 1..fold_i : Merged[n] # PyNone /\ bool(Merged[n]))

FirstLaw ==
    fold_footer = "First" =>
        IF \A n \in 1..fold_i : Merged[n] = PyNone THEN fold_total = PyNone
        ELSE LET n == CHOOSE m \in 1..fold_i :
                          Merged[m] # PyNone /\ \A l \in 1..(m - 1) : Merged[l] = PyNone
             IN  fold_total = Merged[n]

\* C27: in the merge reducers a None contributes nothing: Sum.merge returns
\* the other operand when one is None (None when both are) and the
\* arithmetic sum otherwise, so it is commutative and associative over
\* numbers and None; BoolAnd.merge treats None as True, BoolOr.merge treats
\* None as False, and both always return a boolean; First.merge returns the
\* current value unless it is None, and then the new one.
ReducerLaws == SumNoneLaws /\ SumOfNumbers /\ BoolLaws /\ FirstLaw

\* the claim of C27 without the arithmetic sum of any two numbers
ReducerLawsButSum == SumNoneLaws /\ BoolLaws /\ FirstLaw

\* Sum.merge of a float and a Decimal has raised
SumRaised ==
    /\ fold_footer = "Sum"
    /\ fold_i = 2
    /\ Merged = <<PyFloat(2), PyDec(2)>>
    /\ fold_total = TypeError

\* ------------------------------------------------------------------------
\* Properties of the order in which MergeSource.get_rows merges
\* ------------------------------------------------------------------------
\* the row sub-report name has for key k
RowWithKey(name, k) == CHOOSE r \in RowsWithKey(name, k) : TRUE

\* the non-excluded sub-reports whose row for key k has a value in column c
WithValue(c, k) ==
    {name \in Included : RowsWithKey(name, k) # {} /\ RowWithKey(name, k)[c] # PyNone}

\* the first value that is not None of column c for key k, the sub-reports
\* taken in ascending order of their names
FirstByName(c, k) ==
    IF WithValue(c, k) = {} THEN PyNone
    ELSE RowWithKey(CHOOSE name \in WithValue(c, k) :
                        \A other \in WithValue(c, k) :
                            ReportNameRank(name) <= ReportNameRank(other), k)[c]

\* C40: when several sub-reports have a row for the same key, get_rows
\* merges those rows in ascending order of sub-report name: the value a
\* First column keeps is the first non-None value in that name order,
\* whatever the order in which self._reports lists the sub-reports.
MergedInNameOrder ==
    \A n \in DOMAIN emitted :
        emitted[n].row["user_is_active"] = FirstByName("user_is_active", emitted[n].key)

\* self._reports lists two before one, both have a row for user 1 with
\* different values, and the merged row keeps the value of one
MergedInNameOrderWitness ==
    /\ pc = "done"
    /\ _sources = <<"two", "one">>
    /\ clean_inputs["include"]
    /\ data["one"] = <<SubRow(1, PyBool(TRUE), PyInt(2))>>
    /\ data["two"] = <<SubRow(1, PyBool(FALSE), PyInt(2))>>
    /\ Len(emitted) = 1
    /\ emitted[1].row["user_is_active"] = PyBool(TRUE)

\* ------------------------------------------------------------------------
\* Properties of repeated report_response calls with a runner
\* ------------------------------------------------------------------------
\* the tasks handed to the runner that no worker has taken up yet, as the
\* instances they are to create
Pending == {UniqueIdOf(kwargs) : kwargs \in tasks}

\* C38: for several report_response calls with a runner for the same report
\* and the same inputs while the instance is not finished, the runner is
\* invoked at most once until the instance finishes or its run fails: no
\* call invokes the runner for an instance whose run is still pending.
RunnerOncePerInstance ==
    [][(ResponseCall /\ response'.runner_calls # <<>>) =>
            UniqueIdOf(response'.request.kwargs) \notin Pending]_vars

\* the same for an instance a worker has taken up: its timestamp is there
RunnerOncePerStartedInstance ==
    [][(ResponseCall /\ response'.runner_calls # <<>>) =>
            ~Redis_is_instance_started(UniqueIdOf(response'.request.kwargs))]_vars

\* ------------------------------------------------------------------------
\* Properties of a create_instance that raises
\* ------------------------------------------------------------------------
\* the last run_report ended with the exception of its row stream or of
\* its footer callback
RunFailed == run_exc = "Exception" /\ ~creating

\* C37: if the row stream or the footer callback raises while
\* RedisCache.create_instance is populating an instance, the exception
\* reaches the caller and the cache is left as if the call had not happened:
\* the instance is neither started nor finished, no row or footer of the
\* failed run is readable, and a later create_instance for the same key
\* can succeed.
FailedCreateLeavesNothing ==
    /\ []((cache = "RedisCache" /\ RunFailed) =>
            /\ ~Exists(redis, TsKey)
            /\ ~Exists(redis, LockKey)
            /\ ~Finished
            /\ DOMAIN redis = {}
            /\ RowsOutcome.exc = "InstanceIncompleteError"
            /\ FooterOutcome.exc = "InstanceIncompleteError")
    /\ [][(cache = "RedisCache" /\ RunFailed /\ pc = "idle" /\ pc' = "new") =>
            (creating' /\ run_exc' = "")]_vars

\* the row stream raised after a row had been pulled
FailedCreateLeavesNothingWitness ==
    /\ cache = "RedisCache"
    /\ RunFailed
    /\ pc = "idle"
    /\ emitted # <<>>

\* ------------------------------------------------------------------------
\* The user inputs and run_report: the report is given inputs any number of
\* times and run at any moment
\* ------------------------------------------------------------------------
NextRunInputs ==
    \/ CleanUserInputs
    \/ SetUniqueId
    \/ StartRun /\ UNCHANGED cacheVars

SpecRunInputs == InitInputs /\ [][NextRunInputs]_vars

\* what clean_user_inputs makes of the raw inputs the report holds
Recleaned(dirty) ==
    LET st == CleanFrom(EmptyDict, 1, [dirty |-> dirty, clean |-> EmptyDict,
                                       errors |-> <<>>])
    IN  IF st.errors # <<>> THEN EmptyDict ELSE st.clean

\* C36: the rows cached under a fingerprint are computed from the validated
\* inputs that belong to it: after any sequence of successful and failed
\* clean_user_inputs calls, when run_report is called clean_inputs is the
\* result of cleaning the raw inputs from which unique_id is computed.
RunsWithInputsOfFingerprint ==
    [][(StartRun /\ _unique_id_override = NoOverride) =>
            clean_inputs = Recleaned(dirty_inputs)]_vars

\* the same for a report whose last clean_user_inputs call was accepted
RunsWithAcceptedInputs ==
    [][(StartRun /\ _unique_id_override = NoOverride /\ user_input_errors = <<>>) =>
            clean_inputs = Recleaned(dirty_inputs)]_vars

\* a run started after a failed validation that followed an accepted one:
\* the fingerprint is that of the accepted input 1, the validated inputs
\* are empty
RunAfterFailedClean ==
    /\ pc = "new"
    /\ _unique_id_override = NoOverride
    /\ user_input_errors # <<>>
    /\ Get(dirty_inputs, form_name("s"), RawNone) = "1"
    /\ clean_inputs = EmptyDict

\* ------------------------------------------------------------------------
\* Properties of the completion of a row
\* ------------------------------------------------------------------------
\* the accumulator built from the partial rows ps: the all-None template
\* updated with each of them in turn
RECURSIVE Accumulated(_, _, _)
Accumulated(ps, i, row) ==
    IF i > Len(ps) THEN row ELSE Accumulated(ps, i + 1, Update(row, ps[i].row))

\* C34: every emitted row is completed in this order, each step once: the
\* post_process of every source on the completed accumulator, then the
\* footer incremented with the post-processed row, then the row emitted; no
\* row is post-processed or counted before all partial rows of its key are
\* merged, and the last row is completed the same way after the inputs are
\* exhausted.
CompletedInOrder ==
    /\ \A i \in 1..Len(emitted) :
          /\ emitted[i].row = PostProcessFrom(1, Accumulated(emitted[i].parts, 1, empty_row))
          /\ AllSorted => Len(emitted[i].parts) = InputCount(emitted[i].key)
    /\ _row_count = Len(emitted)
    /\ ~_footer_finalized => _footer = RunTotals
    /\ (pc = "done" /\ AllSorted) => EmittedKeys = StreamKeys

\* a finished run of two rows, the last of them merged from two partial
\* rows and counted in the footer
CompletedInOrderWitness ==
    /\ pc = "done"
    /\ AllSorted
    /\ ~_footer_finalized
    /\ Len(emitted) = 2
    /\ Len(emitted[2].parts) = 2
    /\ _row_count = 2
    /\ _footer["a"] # PyNone

\* ------------------------------------------------------------------------
\* Report._get_footer on a report with two derived columns
\*
\* The report has the columns a and b of a data source and the derived
\* columns r = Value(lambda row: row['a'] / row['b']) and
\* q = Value(lambda row: row['r'] + row['a']), every footer on. In this
\* specification emitted holds the rows of a run that has ended, _footer the
\* footer dict, fold_total the totals as they were when the row stream
\* ended, fold_cells the order in which _footer.keys() lists the columns
\* and fold_i the columns the loop of _get_footer has finalized.
\* ------------------------------------------------------------------------
FinalColumns == {"a", "b", "r", "q"}

\* the derive function of column q
derive_q(row) ==
    IF row["r"].t \in ADD_TYPES /\ row["a"].t \in ADD_TYPES
          /\ PyAdd(row["r"], row["a"]) # TypeError
    THEN [exc |-> "", val |-> PyAdd(row["r"], row["a"])]
    ELSE [exc |-> "TypeError", val |-> PyNone]

\* DerivedSource.post_process: the derived columns in their declared order
post_process_rq(row) ==
    LET r == get_derived_value(row)
        withr == Update(row, "r" :> r)
        q == IF derive_q(withr).exc = "TypeError" THEN PyNone ELSE derive_q(withr).val
    IN  Update(withr, "q" :> q)

\* column.finalize_footer(total, footer) of column c
finalize_column(c, total, footer) ==
    CASE c = "r" -> Value_finalize_footer(TRUE, total, footer)
      [] c = "q" -> (IF derive_q(footer).exc = "TypeError" THEN total
                     ELSE derive_q(footer).val)
      [] OTHER -> finalize_footer(total, footer)

\* the rows of the data source, completed by post_process
FinalRows ==
    {post_process_rq(("a" :> x) @@ ("b" :> y)) :
        x \in {PyInt(2), PyInt(4)}, y \in {PyNone, PyInt(1), PyInt(2)}}

\* the totals _increment_footer has accumulated over rows from the i-th on
RECURSIVE TotalsFrom(_, _, _)
TotalsFrom(rows, i, footer) ==
    IF i > Len(rows) THEN footer
    ELSE TotalsFrom(rows, i + 1,
            [c \in FinalColumns |-> increment_footer(TRUE, footer[c], rows[i][c])])

InitFinalize ==
    /\ key_range = <<>>
    /\ data = [d \in DataSources |-> <<>>]
    /\ _sources = <<"A", "B", "D">>
    /\ footer_opt = [c \in ColumnNames |-> c # KeyName]
    /\ pc = "done"
    /\ pos = [i \in 1..NStreams |-> 0]
    /\ current_key = NoKey
    /\ current_row = PyNone
    /\ pending = NoItem
    /\ parts = <<>>
    /\ \E rows \in SeqsUpTo(FinalRows, MaxLen) :
          /\ emitted = [i \in 1..Len(rows) |-> [key |-> i, parts |-> <<>>, row |-> rows[i]]]
          /\ _footer = TotalsFrom(rows, 1, [c \in FinalColumns |-> PyNone])
          /\ _row_count = Len(rows)
    /\ fold_total = _footer
    /\ _footer_finalized = FALSE
    /\ _footer_increment_complete = TRUE
    /\ footer_ret = [exc |-> "", val |-> PyNone]
    /\ finalized_n = [c \in ColumnNames |-> 0]
    /\ fold_footer = TRUE
    /\ fold_cells \in {o \in [1..Cardinality(FinalColumns) -> FinalColumns] :
                          \A i, j \in DOMAIN o : i # j => o[i] # o[j]}
    /\ fold_i = 0
    /\ NoUser
    /\ NoCache

\* one turn of the loop of _get_footer:
\* self._footer[key] = column.finalize_footer(self._footer[key], self._footer)
FinalizeNext ==
    /\ ~_footer_finalized
    /\ fold_i < Len(fold_cells)
    /\ LET c == fold_cells[fold_i + 1]
       IN  _footer' = [_footer EXCEPT ![c] = finalize_column(c, _footer[c], _footer)]
    /\ fold_i' = fold_i + 1
    /\ _footer_finalized' = (fold_i' = Len(fold_cells))
    /\ UNCHANGED <<inputVars, genVars, _row_count, _footer_increment_complete, footer_ret,
                   finalized_n, fold_footer, fold_cells, fold_total, userVars, cacheVars>>

NextFinalize == FinalizeNext

SpecFinalize == InitFinalize /\ [][NextFinalize]_vars

\* C35: each column's finalize_footer is evaluated against the accumulated
\* per-column totals as they were when the row stream ended, so the
\* finalized footer of a column, also of a derived column whose formula
\* reads another derived column, is the same whatever the order in which
\* the columns are finalized.
FinalizedAgainstTotals ==
    _footer_finalized =>
        \A c \in FinalColumns : _footer[c] = finalize_column(c, fold_total[c], fold_total)

\* the same for the columns whose formula reads no derived column
FinalizedAgainstTotalsButQ ==
    _footer_finalized =>
        \A c \in FinalColumns \ {"q"} :
            _footer[c] = finalize_column(c, fold_total[c], fold_total)

\* rows (a 2, b 1) and (a 2, b 2), r finalized before q: the footer of q
\* is 1 + 4 from the finalized r, not 3 + 4 from the total of r
FinalizedFromFinalized ==
    /\ _footer_finalized
    /\ Len(emitted) = 2
    /\ fold_total = ("a" :> PyInt(4)) @@ ("b" :> PyInt(3)) @@ ("r" :> PyInt(3))
                        @@ ("q" :> PyInt(7))
    /\ _footer["r"] = PyInt(1)
    /\ _footer["q"] = PyInt(5)

\* ------------------------------------------------------------------------
\* derived.Aggregate in the runs of the instances of one report class
\*
\* The report class declares one Aggregate column; the column object is an
\* attribute of the class, so its total is one cell for every instance of
\* the class. In this specification fold_total is that total, fold_cells[i]
\* the results of the derive function on the rows of instance i (TypeError
\* where the function raises), fold_i[i] the rows its current run has
\* completed, fold_footer[i] the runs it has started, pc[i] the position of
\* its run_report and emitted[i] the Aggregate cells its current run has
\* handed to the cache.
\* ------------------------------------------------------------------------
ReportInstances == {1, 2}

MaxRuns == 2

AggResults == {PyNone, PyInt(1), PyInt(2), TypeError}

\* derived.Aggregate.get_derived_value: the total after the call, which is
\* also the value returned
Aggregate_get_derived_value(total, result) ==
    IF result.t # "none" /\ result.v # 0 THEN PyAdd(total, result) ELSE total

\* Aggregate.__init__ on the class, Report.__init__ on each instance
InitAggregate ==
    /\ key_range = <<>>
    /\ data = [d \in DataSources |-> <<>>]
    /\ _sources = <<"A", "B", "D">>
    /\ footer_opt = [c \in ColumnNames |-> c # KeyName]
    /\ pc = [i \in ReportInstances |-> "idle"]
    /\ pos = [i \in 1..NStreams |-> 0]
    /\ current_key = NoKey
    /\ current_row = PyNone
    /\ pending = NoItem
    /\ parts = <<>>
    /\ emitted = [i \in ReportInstances |-> <<>>]
    /\ _footer = [c \in ColumnNames |-> PyNone]
    /\ _row_count = 0
    /\ _footer_finalized = FALSE
    /\ _footer_increment_complete = FALSE
    /\ footer_ret = [exc |-> "", val |-> PyNone]
    /\ finalized_n = [c \in ColumnNames |-> 0]
    /\ fold_footer = [i \in ReportInstances |-> 0]
    /\ fold_cells \in [ReportInstances -> SeqsUpTo(AggResults, MaxLen)]
    /\ fold_i = [i \in ReportInstances |-> 0]
    /\ fold_total = PyInt(0)
    /\ NoUser
    /\ NoCache

\* run_report of instance i up to the first row: _init_footer and the call
\* of create_instance with the row generator; the total is left as it is
AggregateRunReport(i) ==
    /\ pc[i] # "running"
    /\ fold_footer[i] < MaxRuns
    /\ pc' = [pc EXCEPT ![i] = "running"]
    /\ fold_footer' = [fold_footer EXCEPT ![i] = @ + 1]
    /\ fold_i' = [fold_i EXCEPT ![i] = 0]
    /\ emitted' = [emitted EXCEPT ![i] = <<>>]
    /\ UNCHANGED <<inputVars, pos, current_key, current_row, pending, parts, footerVars,
                   fold_cells, fold_total, userVars, cacheVars>>

\* the cache takes the next row of instance i: post_process fills its
\* Aggregate cell; a derive function that raises ends run_report there
AggregateRow(i) ==
    /\ pc[i] = "running"
    /\ fold_i[i] < Len(fold_cells[i])
    /\ LET result == fold_cells[i][fold_i[i] + 1]
       IN  IF result = TypeError
           THEN /\ pc' = [pc EXCEPT ![i] = "raised"]
                /\ UNCHANGED <<fold_total, emitted, fold_i>>
           ELSE /\ fold_total' = Aggregate_get_derived_value(fold_total, result)
                /\ emitted' = [emitted EXCEPT ![i] = Append(@, fold_total')]
                /\ fold_i' = [fold_i EXCEPT ![i] = @ + 1]
                /\ pc' = pc
    /\ UNCHANGED <<inputVars, pos, current_key, current_row, pending, parts, footerVars,
                   fold_footer, fold_cells, userVars, cacheVars>>

\* the rows of instance i are exhausted: create_instance returns and
\* run_report calls report_finalize, which calls finalize on every column
AggregateFinish(i) ==
    /\ pc[i] = "running"
    /\ fold_i[i] = Len(fold_cells[i])
    /\ pc' = [pc EXCEPT ![i] = "done"]
    /\ fold_total' = PyInt(0)
    /\ UNCHANGED <<inputVars, pos, current_key, current_row, pending, parts, emitted,
                   footerVars, fold_footer, fold_cells, fold_i, userVars, cacheVars>>

NextAggregate ==
    \E i \in ReportInstances : AggregateRunReport(i) \/ AggregateRow(i) \/ AggregateFinish(i)

SpecAggregate == InitAggregate /\ [][NextAggregate]_vars

\* the sum of the truthy results among the first k of a run
RECURSIVE RunningSum(_, _)
RunningSum(results, k) ==
    IF k = 0 THEN PyInt(0)
    ELSE Aggregate_get_derived_value(RunningSum(results, k - 1), results[k])

\* the Aggregate cells of the current run of instance i are the running
\* sums of its own rows
OwnRunningSums(i) ==
    \A k \in 1..Len(emitted[i]) : emitted[i][k] = RunningSum(fold_cells[i], k)

\* no run of any instance has raised: each has started one run at most
\* and that run has not raised
NoRunRaised ==
    \A i \in ReportInstances : fold_footer[i] <= 1 /\ pc[i] # "raised"

\* C39: the running total of an Aggregate column is 0 whenever a
\* run_report starts while no other run is in progress, whatever runs of
\* the report class came before, runs that raised included, so that the
\* cell of the i-th row is the sum over rows 1..i of that run.
TotalZeroAtRunStart ==
    [][\A i \in ReportInstances :
          (/\ pc[i] # "running"
           /\ pc'[i] = "running"
           /\ \A j \in ReportInstances \ {i} : pc[j] # "running")
          => fold_total = PyInt(0)]_vars

\* while no run is in progress and the last run of no instance raised,
\* the total is 0
QuietTotalZero ==
    (\A i \in ReportInstances : pc[i] \in {"idle", "done"}) => fold_total = PyInt(0)

\* instance 1 is in its second run with no row taken yet, instance 2 has
\* never run, and the total is not 0: the first run raised
StaleTotalAtRunStart ==
    /\ pc[1] = "running"
    /\ fold_footer = (1 :> 2) @@ (2 :> 0)
    /\ fold_i[1] = 0
    /\ fold_total # PyInt(0)

\* C33: when the row streams of two instances of a report class are
\* consumed in any interleaving and no run raises, the rows of each run
\* are the rows it produces alone.
InstancesIndependent ==
    NoRunRaised => \A i \in ReportInstances : OwnRunningSums(i)

\* an instance that runs while the other has never run, in its first run,
\* produces the running sums of its own rows
AloneOwnRunningSums ==
    \A i \in ReportInstances :
        (fold_footer[i] <= 1 /\ \A j \in ReportInstances \ {i} : fold_footer[j] = 0)
            => OwnRunningSums(i)

\* both instances are in their first run, neither has raised, and a cell
\* of instance 2 holds more than the sum of its own rows
MixedTotals ==
    /\ NoRunRaised
    /\ pc = [i \in ReportInstances |-> "running"]
    /\ Len(emitted[2]) = 1
    /\ fold_cells[2][1] = PyInt(1)
    /\ emitted[2][1] = PyInt(3)

\* ------------------------------------------------------------------------
\* The range-based key ranges: MonthKeyRange and EpochKeyRange
\*
\* A date is the number of days from 1 January 1970, the EPOCH of
\* utils.epoch, to it. In this specification fold_footer is the key range
\* object (its class, start and end), clean_inputs the inputs handed to
\* get_row_keys, pc the position of the generator get_row_keys returns,
\* fold_i its local `date`, key_range the keys it has yielded and
\* fold_total the exception it raised ("" for none).
\* ------------------------------------------------------------------------
\* the days of January to April 1970
MonthLengths == <<31, 28, 31, 30>>

RECURSIVE MonthStart(_)
\* the date of the first day of month m
MonthStart(m) == IF m = 1 THEN 0 ELSE MonthStart(m - 1) + MonthLengths[m - 1]

MonthOfDate(d) ==
    CHOOSE m \in DOMAIN MonthLengths : MonthStart(m) <= d /\ d < MonthStart(m) + MonthLengths[m]

\* date.replace(day=1)
replace_day_1(d) == MonthStart(MonthOfDate(d))

\* epoch.datetime_to_hours of a date: no seconds, no time zone
datetime_to_hours(d) == (d * 24) + (0 \div 3600)

\* 31 January, 1 and 2 February, 1 March
RangeDates == {MonthStart(2) - 1, MonthStart(2), MonthStart(2) + 1, MonthStart(3)}

RangeNames == {"start", "end"}

\* a start or end argument: a date, or a string naming a widget
DateArg(d) == [t |-> "date", name |-> "", date |-> d]

NameArg(n) == [t |-> "str", name |-> n, date |-> 0]

\* _resolve_date of both classes: MonthKeyRange lets the KeyError of the
\* dict through, EpochKeyRange turns it into a ValueError
_resolve_date(class, arg, inputs) ==
    IF arg.t = "str"
    THEN IF arg.name \in DOMAIN inputs
         THEN [exc |-> "", val |-> inputs[arg.name]]
         ELSE [exc |-> IF class = "EpochKeyRange" THEN "ValueError" ELSE "KeyError", val |-> 0]
    ELSE [exc |-> "", val |-> arg.date]

\* the key yielded for a date
YieldedKey(class, d) ==
    IF class = "EpochKeyRange" THEN datetime_to_hours(d) \div 24 ELSE d

\* the date after the yield
NextDate(class, d) ==
    IF class = "EpochKeyRange" THEN d + 1 ELSE replace_day_1(d + 31)

InitKeyRange ==
    /\ key_range = <<>>
    /\ data = [d \in DataSources |-> <<>>]
    /\ _sources = <<"A", "B", "D">>
    /\ footer_opt = [c \in ColumnNames |-> c # KeyName]
    /\ InitRun
    /\ \E class \in {"MonthKeyRange", "EpochKeyRange"},
          start \in {DateArg(d) : d \in RangeDates} \cup {NameArg("start")},
          end \in {DateArg(d) : d \in RangeDates} \cup {NameArg("end")} :
            fold_footer = [class |-> class, start |-> start, end |-> end]
    /\ fold_cells = <<>>
    /\ fold_i = 0
    /\ fold_total = ""
    /\ dirty_inputs = EmptyDict
    /\ \E names \in SUBSET RangeNames : clean_inputs \in [names -> RangeDates]
    /\ user_input_errors = <<>>
    /\ _unique_id_override = NoOverride
    /\ NoCache

\* `while date <= end`: yield the key of date and move on, or stop
KeyRangeLoop(class, date, end) ==
    IF date <= end
    THEN /\ pc' = "running"
         /\ key_range' = Append(key_range, YieldedKey(class, date))
         /\ fold_i' = NextDate(class, date)
         /\ fold_total' = ""
    ELSE /\ pc' = "done"
         /\ UNCHANGED <<key_range, fold_total>>
         /\ fold_i' = date

\* the first next() on the generator of get_row_keys: the body up to the
\* first yield, the end of the loop or an exception
GetRowKeysFirst ==
    /\ pc = "idle"
    /\ LET class == fold_footer.class
           start == _resolve_date(class, fold_footer.start, clean_inputs)
           end == _resolve_date(class, fold_footer.end, clean_inputs)
           date == IF class = "MonthKeyRange" THEN replace_day_1(start.val) ELSE start.val
           exc == IF start.exc # "" THEN start.exc
                  ELSE IF end.exc # "" THEN end.exc
                  ELSE IF class = "EpochKeyRange" /\ date > end.val THEN "ValueError"
                  ELSE ""
       IN  IF exc # ""
           THEN /\ pc' = "raised"
                /\ fold_total' = exc
                /\ UNCHANGED <<key_range, fold_i>>
           ELSE KeyRangeLoop(class, date, end.val)
    /\ UNCHANGED <<data, _sources, footer_opt, pos, current_key, current_row, pending, parts,
                   emitted, footerVars, fold_footer, fold_cells, userVars, cacheVars>>

\* a later next() on the generator: on from the yield
GetRowKeysNext ==
    /\ pc = "running"
    /\ KeyRangeLoop(fold_footer.class, fold_i,
                    _resolve_date(fold_footer.class, fold_footer.end, clean_inputs).val)
    /\ UNCHANGED <<data, _sources, footer_opt, pos, current_key, current_row, pending, parts,
                   emitted, footerVars, fold_footer, fold_cells, userVars, cacheVars>>

NextKeyRange == GetRowKeysFirst \/ GetRowKeysNext

SpecKeyRange == InitKeyRange /\ [][NextKeyRange]_vars

\* the keys have been requested: the generator has been advanced
KeysRequested == pc # "idle"

\* both arguments resolve and the start is later than the end
StartAfterEnd ==
    LET start == _resolve_date(fold_footer.class, fold_footer.start, clean_inputs)
        end == _resolve_date(fold_footer.class, fold_footer.end, clean_inputs)
    IN  start.exc = "" /\ end.exc = "" /\ start.val > end.val

\* an argument names an input that is missing
InputMissing ==
    \/ _resolve_date(fold_footer.class, fold_footer.start, clean_inputs).exc # ""
    \/ _resolve_date(fold_footer.class, fold_footer.end, clean_inputs).exc # ""

RaisedNoKeys == pc = "raised" /\ fold_total # "" /\ key_range = <<>>

\* C31: a MonthKeyRange or EpochKeyRange whose resolved start is later
\* than its resolved end raises an error when its keys are requested and
\* yields no key, and an EpochKeyRange whose start or end names a missing
\* input raises an error too.
RangeErrorsRaised ==
    KeysRequested =>
        /\ StartAfterEnd => RaisedNoKeys
        /\ (fold_footer.class = "EpochKeyRange" /\ InputMissing) => RaisedNoKeys

\* the same for EpochKeyRange alone, and a missing input of a
\* MonthKeyRange raises as well
EpochRangeErrorsRaised ==
    KeysRequested =>
        /\ (fold_footer.class = "EpochKeyRange" /\ StartAfterEnd)
              => (RaisedNoKeys /\ fold_total = "ValueError")
        /\ (fold_footer.class = "EpochKeyRange" /\ InputMissing)
              => (RaisedNoKeys /\ fold_total = "ValueError")
        /\ (fold_footer.class = "MonthKeyRange" /\ InputMissing)
              => (RaisedNoKeys /\ fold_total = "KeyError")

\* MonthKeyRange(1 March, 1 February): the generator ends with no key and
\* no error
MonthRangeNoKeys ==
    /\ fold_footer = [class |-> "MonthKeyRange", start |-> DateArg(MonthStart(3)),
                      end |-> DateArg(MonthStart(2))]
    /\ pc = "done"
    /\ key_range = <<>>
    /\ fold_total = ""

\* MonthKeyRange(2 February, 1 February): the generator yields the key of
\* 1 February
MonthRangeOneKey ==
    /\ fold_footer = [class |-> "MonthKeyRange", start |-> DateArg(MonthStart(2) + 1),
                      end |-> DateArg(MonthStart(2))]
    /\ pc = "done"
    /\ key_range = <<MonthStart(2)>>

\* ------------------------------------------------------------------------
\* The configuration checks of the merge and database sources
\*
\* In this specification fold_footer is what the developer wrote (the keys
\* of a merge report, the keyword arguments of a ColumnTransform or of a
\* ReportFilter, or the filters of a database report whose key column is
\* k), pc tells whether the constructor or the property has been evaluated
\* and fold_total is the exception it raised ("" for none).
\* ------------------------------------------------------------------------
MaxFilters == 2

MaxKeyRanges == 2

\* a keyword argument that was not given
NotGiven == "not given"

\* len(normalize_key_ranges(keys)): a lone two-tuple is wrapped in a list,
\* the first item of an empty list cannot be read
normalize_key_ranges_len(keys) ==
    IF keys.form = "tuple" THEN [exc |-> "", len |-> 1]
    ELSE IF keys.n = 0 THEN [exc |-> "IndexError", len |-> 0]
    ELSE [exc |-> "", len |-> keys.n]

\* MergeSource.__init__
MergeSource_init(keys) ==
    LET _keys == normalize_key_ranges_len(keys)
    IN  IF _keys.exc # "" THEN _keys.exc
        ELSE IF _keys.len # 1 THEN "ValueError"
        ELSE ""

\* ColumnTransform.__init__: columns is not given, None or a list
ColumnTransform_init(cols) ==
    IF cols = [given |-> "None", names |-> {}] THEN "TypeError"
    ELSE IF Cardinality(cols.names) = 0 THEN "ValueError"
    ELSE ""

\* ReportFilter.__init__: widget is not given, None or a widget
ReportFilter_init(widget) ==
    IF widget = NotGiven THEN "ValueError" ELSE ""

RECURSIVE query_filters_from(_, _, _, _)
\* the loop of DatabaseSource._query_filters from the i-th filter on
query_filters_from(fs, i, key_columns, filtered_columns) ==
    IF i > Len(fs) THEN ""
    ELSE LET report_filter == fs[i]
         IN  IF report_filter.class = "QueryFilter" /\ report_filter.on # {}
             THEN IF report_filter.on \cap filtered_columns # {} THEN "ValueError"
                  ELSE IF report_filter.on \cap key_columns # {} THEN "ValueError"
                  ELSE query_filters_from(fs, i + 1, key_columns,
                                          filtered_columns \cup report_filter.on)
             ELSE query_filters_from(fs, i + 1, key_columns, filtered_columns)

\* DatabaseSource._query_filters of a report with the key column k
_query_filters(fs) == query_filters_from(fs, 1, {"k"}, {})

\* the filters a database report can declare: QueryFilters on any columns
\* or on none, ColumnTransforms on some columns
DatabaseFilters ==
    {[class |-> "QueryFilter", on |-> cs] : cs \in SUBSET {"a", "b", "k"}}
        \cup {[class |-> "ColumnTransform", on |-> cs] : cs \in (SUBSET {"a", "b"}) \ {{}}}

InitConfig ==
    /\ key_range = <<>>
    /\ data = [d \in DataSources |-> <<>>]
    /\ _sources = <<"A", "B", "D">>
    /\ footer_opt = [c \in ColumnNames |-> c # KeyName]
    /\ InitRun
    /\ \/ \E n \in 0..MaxKeyRanges + 1 :
             fold_footer = [kind |-> "MergeSource", keys |-> [form |-> "list", n |-> n]]
       \/ fold_footer = [kind |-> "MergeSource", keys |-> [form |-> "tuple", n |-> 1]]
       \/ \E given \in {NotGiven, "None"} :
             fold_footer = [kind |-> "ColumnTransform",
                            given_columns |-> [given |-> given, names |-> {}]]
       \/ \E names \in SUBSET {"a", "b"} :
             fold_footer = [kind |-> "ColumnTransform",
                            given_columns |-> [given |-> "list", names |-> names]]
       \/ \E widget \in {NotGiven, "None", "Checkbox"} :
             fold_footer = [kind |-> "ReportFilter", widget |-> widget]
       \/ \E fs \in SeqsUpTo(DatabaseFilters, MaxFilters) :
             fold_footer = [kind |-> "DatabaseSource", declared |-> fs]
    /\ fold_cells = <<>>
    /\ fold_i = 0
    /\ fold_total = ""
    /\ NoUser
    /\ NoCache

\* the outcome of a constructor or of the property: it returned or raised
Configured(exc) ==
    /\ pc = "idle"
    /\ pc' = (IF exc = "" THEN "built" ELSE "raised")
    /\ fold_total' = exc
    /\ UNCHANGED <<inputVars, pos, current_key, current_row, pending, parts, emitted,
                   footerVars, fold_footer, fold_cells, fold_i, userVars, cacheVars>>

BuildMergeSource ==
    /\ fold_footer.kind = "MergeSource"
    /\ Configured(MergeSource_init(fold_footer.keys))

BuildColumnTransform ==
    /\ fold_footer.kind = "ColumnTransform"
    /\ Configured(ColumnTransform_init(fold_footer.given_columns))

BuildReportFilter ==
    /\ fold_footer.kind = "ReportFilter"
    /\ Configured(ReportFilter_init(fold_footer.widget))

BuildQueryFilters ==
    /\ fold_footer.kind = "DatabaseSource"
    /\ Configured(_query_filters(fold_footer.declared))

NextConfig ==
    BuildMergeSource \/ BuildColumnTransform \/ BuildReportFilter \/ BuildQueryFilters

SpecConfig == InitConfig /\ [][NextConfig]_vars

\* the QueryFilters among the declared filters, by position
QueryFilterAt(i) == fold_footer.declared[i].class = "QueryFilter"

\* the configuration errors, but a ReportFilter given None for its widget
ConfigurationError ==
    \/ /\ fold_footer.kind = "MergeSource"
       /\ fold_footer.keys.form = "list"
       /\ fold_footer.keys.n > 1
    \/ /\ fold_footer.kind = "ColumnTransform"
       /\ fold_footer.given_columns.names = {}
    \/ /\ fold_footer.kind = "ReportFilter"
       /\ fold_footer.widget = NotGiven
    \/ /\ fold_footer.kind = "DatabaseSource"
       /\ \/ \E i, j \in DOMAIN fold_footer.declared :
                /\ i # j
                /\ QueryFilterAt(i)
                /\ QueryFilterAt(j)
                /\ fold_footer.declared[i].on \cap fold_footer.declared[j].on # {}
          \/ \E i \in DOMAIN fold_footer.declared :
                QueryFilterAt(i) /\ "k" \in fold_footer.declared[i].on

\* a ReportFilter whose widget is None has no widget either
NoWidget ==
    fold_footer.kind = "ReportFilter" /\ fold_footer.widget \in {NotGiven, "None"}

\* C32: a MergeSource for a report with more than one key, a
\* ColumnTransform with no columns, a ReportFilter with no widget and the
\* database queries of two QueryFilters on one column or of a QueryFilter
\* on a key column are each rejected with an error.
ConfigurationErrorsRejected ==
    (pc # "idle" /\ (ConfigurationError \/ NoWidget)) => (pc = "raised" /\ fold_total # "")

\* the same without the ReportFilter that is given None as its widget
ConfigurationErrorsRejectedButNone ==
    (pc # "idle" /\ ConfigurationError) => (pc = "raised" /\ fold_total # "")

\* nothing else is rejected but a merge report with no key at all
OnlyErrorsRejected ==
    (pc = "raised" /\ ~ConfigurationError) =>
        (fold_footer.kind = "MergeSource" /\ fold_footer.keys.n = 0)

\* ReportFilter('one', widget=None) has been constructed
ReportFilterWithNone ==
    /\ fold_footer = [kind |-> "ReportFilter", widget |-> "None"]
    /\ pc = "built"
    /\ fold_total = ""

====
